---------------------------- MODULE Spec2Model ----------------------------
(***************************************************************************)
(* Verification model of the cube scan core of cubesql                     *)
(* (rust/cubesql/cubesql/src/compile/engine/df/scan.rs):                   *)
(*   - CubeScanExecutionPlan::execute, load_data, load_to_stream_sync,     *)
(*     transform_response and the CubeScanStreamRouter state machine       *)
(*     (specification Spec);                                               *)
(*   - the worker threads of the async runtime that poll the routers of    *)
(*     concurrent executions (specification SchedSpec);                    *)
(*   - repeated execute() calls on one plan (specification ExecSpec);      *)
(*   - single transform_response calls (specification MatSpec);            *)
(*   - CubeScanExtensionPlanner::plan_extension (specification LowerSpec); *)
(*   - CubeScanNode::from_template and WrappedSelectNode::from_template    *)
(*     (specification TemplateSpec);                                       *)
(* and of the MySQL service of cubesql                                     *)
(* (rust/cubesql/cubesql/src/sql/mysql/service.rs):                        *)
(*   - the prepared statements of one connection (specification ConnSpec); *)
(*   - MySqlServer::processing_loop and the tasks it spawns                *)
(*     (specifications ServerSpec and ServerLiveSpec).                     *)
(*                                                                         *)
(* Option<T> is modelled as a set with at most one element: None is {},    *)
(* Some(x) is {x}.                                                         *)
(***************************************************************************)
EXTENDS Integers, Sequences, FiniteSets, TLC

VARIABLES
    env,              \* CUBESQL_STREAM_MODE / CUBEJS_DB_QUERY_LIMIT as read by execute()
    plan,             \* the CubeScanExecutionPlan (immutable fields)
    partition,        \* the partition index execute() is called with
    execs,            \* number of execute() calls made on the plan
    pc,               \* "idle" | "stream" | "error" | "panic"
    execResult,       \* Option: what execute() returned / how it ended
    main_stream,      \* CubeScanStreamRouter.main_stream : Option<CubeScanMemoryStream>
    one_shot_stream,  \* CubeScanStreamRouter.one_shot_stream : CubeScanOneShotStream
    chan,             \* the CubeStreamReceiver: [queue, closed, sent]
    calls,            \* log of the transport calls made by this execution
    trace,            \* log of the results of CubeScanStreamRouter::poll_next
    workers,          \* SchedSpec: state of every runtime worker thread
    tasks,            \* SchedSpec: state of every scan execution (task)
    threads,          \* SchedSpec: state of the thread spawned by load_to_stream_sync, per task
    driver,           \* SchedSpec: the worker parked on the runtime's I/O driver (0: none)
    matIn,            \* MatSpec: the arguments of a transform_response call
    matOut,           \* MatSpec: Option: what that call returned
    lowering,         \* LowerSpec: the planner and the arguments of a plan_extension call
    lowered,          \* LowerSpec: Option: what that call returned
    template,         \* TemplateSpec: the node and the arguments of a from_template call
    rebuilt,          \* TemplateSpec: Option: what that call returned
    conn,             \* ConnSpec: one MySqlConnection: its PreparedStatements and its last call
    server            \* ServerSpec: the MySqlServer: loop position, stop signal, sessions, tasks;
                      \* observed, stopped_at: where the loop and the caller of stop were

execVars  == <<env, plan, partition, execs, pc, execResult, main_stream,
               one_shot_stream, chan, calls, trace>>
schedVars == <<workers, tasks, threads, driver>>
matVars   == <<matIn, matOut>>
plannerVars == <<lowering, lowered, template, rebuilt>>
serviceVars == <<conn, server>>
vars      == <<env, plan, partition, execs, pc, execResult, main_stream,
               one_shot_stream, chan, calls, trace, workers, tasks, threads, driver,
               matIn, matOut, lowering, lowered, template, rebuilt, conn, server>>

-----------------------------------------------------------------------------
(* Bounds of the model *)

MaxRows       == 2      \* rows in a transport.load result
MaxChan       == 2      \* elements the transport puts on a stream channel
MaxPolls      == 3      \* polls of the router by the consumer
NWorkers      == 2      \* SchedSpec: worker threads of the runtime (1..NWorkers)
NTasks        == 2      \* SchedSpec: concurrent scan executions
MaxPrepares   == 3      \* ConnSpec: successful on_prepare calls on one connection
MaxStatements == 2      \* ConnSpec: largest connection_max_prepared_statements
MaxConns      == 2      \* ServerSpec: connections the listener accepts
MaxAcceptErrors == 1    \* ServerSpec: errors listener.accept() returns
MaxExecs      == 2      \* ExecSpec: execute() calls on one plan
MaxExprs      == 2      \* TemplateSpec: expressions in one list of a WrappedSelectNode
MaxJoins      == 2      \* TemplateSpec: joined children of a WrappedSelectNode

-----------------------------------------------------------------------------
(* Option helpers *)

None      == {}
Some(x)   == {x}
IsSome(o) == o # {}
IsNone(o) == o = {}
Unwrap(o) == CHOOSE x \in o : TRUE
UnwrapOr(o, d) == IF o = {} THEN d ELSE CHOOSE x \in o : TRUE

Min(a, b) == IF a <= b THEN a ELSE b

-----------------------------------------------------------------------------
(* JSON values (serde_json::Value) and FieldValue *)

JNull      == [kind |-> "null"]
JBool(b)   == [kind |-> "bool", b |-> b]
JNum(n)    == [kind |-> "number", n |-> n]       \* n in hundredths: 5.05 is 505
JStr(s)    == [kind |-> "string", s |-> s]
JArray     == [kind |-> "array"]
JObject(f) == [kind |-> "object", fields |-> f]  \* f : field name -> JSON value

FNull      == [fv |-> "Null"]
FString(s) == [fv |-> "String", s |-> s]
FNumber(n) == [fv |-> "Number", n |-> n]
FBool(b)   == [fv |-> "Bool", b |-> b]

Ok(v)      == [ok |-> TRUE, v |-> v]
Err(m)     == [ok |-> FALSE, msg |-> m]

\* JsonValueObject::get
JsonGet(rows, index, field_name) ==
    LET row == rows[index] IN
    IF row.kind # "object"
    THEN Err("row is not an object")
    ELSE LET value == IF field_name \in DOMAIN row.fields
                      THEN row.fields[field_name] ELSE JNull
         IN (CASE value.kind = "string" -> Ok(FString(value.s))
               [] value.kind = "number" -> Ok(FNumber(value.n))
               [] value.kind = "bool"   -> Ok(FBool(value.b))
               [] value.kind = "null"   -> Ok(FNull)
               [] OTHER                 -> Err("Expected primitive value"))

-----------------------------------------------------------------------------
(* Columns, member fields, cells *)

Member(name)   == [mf |-> "Member", name |-> name]
Literal(sv)    == [mf |-> "Literal", scalar |-> sv]
\* ScalarValue::<kind>(Option<value>)
Scalar(kind, opt) == [kind |-> kind, value |-> opt]

NullCell   == [null |-> TRUE]
StrCell(s) == [null |-> FALSE, s |-> s]
IntCell(i) == [null |-> FALSE, i |-> i]
NumCell(n) == [null |-> FALSE, n |-> n]          \* hundredths, like JNum
BoolCell(b) == [null |-> FALSE, b |-> b]
TsCell(unit, days) == [null |-> FALSE, unit |-> unit, days |-> days]

SupportedTypes == {"Utf8", "Int32", "Int64", "Float64", "Boolean",
                   "TimestampNanosecond", "TimestampMillisecond", "Date32"}

\* f64::round (half away from zero) of a number given in hundredths
RoundHundredths(n) ==
    IF n >= 0 THEN (n + 50) \div 100 ELSE -((-n + 50) \div 100)

\* f64::to_string of a number given in hundredths, for the values of the model
NumberToString(n) ==
    IF n % 100 = 0 THEN ToString(n \div 100)
    ELSE IF n = 505 THEN "5.05" ELSE "?"

\* Variant: only "0" parses
ParseIntOnlyZero(s) ==
    IF s = "0" THEN Some(0) ELSE None

\* str::parse::<i32>/<i64>: Some(value) for the decimal integers of the model
ParseInt(s) ==
    CASE s = "5" -> Some(5)
      [] s = "1" -> Some(1)
      [] s = "0" -> Some(0)
      [] OTHER   -> None

\* str::parse::<f64>, in hundredths
ParseFloat(s) ==
    CASE s = "5"    -> Some(500)
      [] s = "5.05" -> Some(505)
      [] s = "1"    -> Some(100)
      [] s = "0"    -> Some(0)
      [] OTHER      -> None

\* Variant: every string parses as the epoch
ParseTimestampLenient(s) == Some(0)

\* NaiveDateTime::parse_from_str against the three accepted formats, first match
\* wins. The strings of the model are midnights, and the parsed instant is kept in
\* whole days since the epoch (milliseconds exceed 32-bit integers).
ParseTimestampDays(s) ==
    CASE s = "2022-01-01T00:00:00.000" -> Some(18993)
      [] s = "2022-01-01 00:00:00.000" -> Some(18993)
      [] s = "2022-01-01T00:00:00"     -> Some(18993)
      [] s = "9999-12-31 00:00:00.000" -> Some(2932896)
      [] OTHER                         -> None

\* ((1 << 62) / 1_000_000) milliseconds, in whole days: 4611686018427 \div 86400000
TimestampDaysCap == 53375

\* NaiveDate::parse_from_str "%Y-%m-%d", then "%Y-%m-%dT00:00:00.000"; days since epoch
ParseDateDays(s) ==
    CASE s = "2022-01-01"              -> Some(18993)
      [] s = "2022-01-01T00:00:00.000" -> Some(18993)
      [] OTHER                         -> None

\* The $builder_block of build_column! for one non-null FieldValue: a cell, or
\* the fatal error of the fall-through arm / of a `?` inside the block.
CoerceValue(type, v) ==
    CASE type = "Utf8" ->
           (CASE v.fv = "String" -> Ok(StrCell(v.s))
              [] v.fv = "Bool"   -> Ok(StrCell(IF v.b THEN "true" ELSE "false"))
              [] v.fv = "Number" -> Ok(StrCell(NumberToString(v.n))))
      [] type \in {"Int32", "Int64"} ->
           (CASE v.fv = "Number" -> Ok(IntCell(RoundHundredths(v.n)))
              [] v.fv = "String" ->
                   (IF IsSome(ParseInt(v.s)) THEN Ok(IntCell(Unwrap(ParseInt(v.s))))
                                             ELSE Ok(NullCell))
              [] OTHER -> Err("Unable to map value"))
      [] type = "Float64" ->
           (CASE v.fv = "Number" -> Ok(NumCell(v.n))
              [] v.fv = "String" ->
                   (IF IsSome(ParseFloat(v.s)) THEN Ok(NumCell(Unwrap(ParseFloat(v.s))))
                                               ELSE Ok(NullCell))
              [] OTHER -> Err("Unable to map value"))
      [] type = "Boolean" ->
           (CASE v.fv = "Bool" -> Ok(BoolCell(v.b))
              [] v.fv = "String" ->
                   (CASE v.s \in {"true", "1"}  -> Ok(BoolCell(TRUE))
                      [] v.s \in {"false", "0"} -> Ok(BoolCell(FALSE))
                      [] OTHER                  -> Ok(NullCell))
              [] OTHER -> Err("Unable to map value"))
      [] type \in {"TimestampNanosecond", "TimestampMillisecond"} ->
           (CASE v.fv = "String" ->
                   (IF IsNone(ParseTimestampDays(v.s))
                    THEN Err("Can't parse timestamp")
                    ELSE LET days == Unwrap(ParseTimestampDays(v.s)) IN
                         IF days > TimestampDaysCap THEN Ok(NullCell)
                         ELSE IF type = "TimestampNanosecond"
                              THEN Ok(TsCell("ns", days))
                              ELSE Ok(TsCell("ms", days)))
              [] OTHER -> Err("Unable to map value"))
      [] type = "Date32" ->
           (CASE v.fv = "String" ->
                   (IF IsSome(ParseDateDays(v.s)) THEN Ok(IntCell(Unwrap(ParseDateDays(v.s))))
                                                  ELSE Ok(NullCell))
              [] OTHER -> Err("Unable to map value"))

\* Variant: a null value has no arm for Date32
MemberValueNullUnmapped(type, got) ==
    IF ~got.ok THEN got
    ELSE IF got.v.fv = "Null"
         THEN (IF type = "Date32" THEN Err("Unable to map value") ELSE Ok(NullCell))
    ELSE CoerceValue(type, got.v)

\* Variant: a value without a coercion rule gives a null cell
MemberValueUnmappedIsNull(type, got) ==
    IF ~got.ok THEN got
    ELSE IF got.v.fv = "Null" THEN Ok(NullCell)
    ELSE IF CoerceValue(type, got.v) = Err("Unable to map value") THEN Ok(NullCell)
    ELSE CoerceValue(type, got.v)

\* The match on (value, builder) of build_column! for what get returned
MemberValue(type, got) ==
    IF ~got.ok THEN got
    ELSE IF got.v.fv = "Null" THEN Ok(NullCell)
    ELSE CoerceValue(type, got.v)

\* One cell of a Member column: rows[i] read through JsonValueObject::get
MemberCell(type, name, rows, i) == MemberValue(type, JsonGet(rows, i, name))

\* The scalar kind the $scalar_block of each type accepts
ScalarKindOf(type) == type

\* Variant: the literal's value is not appended
LiteralCellAlwaysNull(type, sv) ==
    IF sv.kind # ScalarKindOf(type) THEN Err("Unable to map value") ELSE Ok(NullCell)

\* One cell of a Literal column: builder.append_option(value)
LiteralCell(type, sv) ==
    IF sv.kind # ScalarKindOf(type) THEN Err("Unable to map value")
    ELSE IF IsNone(sv.value) THEN Ok(NullCell)
    ELSE CASE type = "Utf8"    -> Ok(StrCell(Unwrap(sv.value)))
           [] type = "TimestampNanosecond"  -> Ok(TsCell("ns", Unwrap(sv.value)))
           [] type = "TimestampMillisecond" -> Ok(TsCell("ms", Unwrap(sv.value)))
           [] type = "Float64" -> Ok(NumCell(Unwrap(sv.value)))
           [] type = "Boolean" -> Ok(BoolCell(Unwrap(sv.value)))
           [] OTHER            -> Ok(IntCell(Unwrap(sv.value)))

\* Variant: the last error is reported
LastErrorOrAll(results) ==
    IF \E i \in DOMAIN results : ~results[i].ok
    THEN results[CHOOSE i \in DOMAIN results :
                    ~results[i].ok /\ \A j \in DOMAIN results : ~results[j].ok => i >= j]
    ELSE Ok([i \in DOMAIN results |-> results[i].v])

\* The `?` / `return Err` discipline of the loops: of a sequence of results,
\* the first error in order, or all the values
FirstErrorOrAll(results) ==
    IF \E i \in DOMAIN results : ~results[i].ok
    THEN results[CHOOSE i \in DOMAIN results :
                    ~results[i].ok /\ \A j \in DOMAIN results : ~results[j].ok => i <= j]
    ELSE Ok([i \in DOMAIN results |-> results[i].v])

\* Variant: the loop stops one row early
BuildColumnSkipsLastRow(type, field, rows) ==
    FirstErrorOrAll([i \in 1..(Len(rows) - 1) |->
                        IF field.mf = "Member" THEN MemberCell(type, field.name, rows, i)
                        ELSE LiteralCell(type, field.scalar)])

\* build_column!: the cells of one column in row order, or the first fatal error
BuildColumn(type, field, rows) ==
    FirstErrorOrAll([i \in 1..Len(rows) |->
                        IF field.mf = "Member" THEN MemberCell(type, field.name, rows, i)
                        ELSE LiteralCell(type, field.scalar)])

\* RecordBatch::try_new(schema, columns) on the built columns
NewRecordBatch(schema, built) ==
    IF ~built.ok THEN built
    ELSE IF Len(schema) = 0
         THEN Err("at least one column must be defined to create a record batch")
         ELSE Ok([schema |-> schema, columns |-> built.v])

\* Variant: the column's type is looked at once per row
TransformResponseTypePerRow(rows, schema, member_fields) ==
    NewRecordBatch(schema,
        FirstErrorOrAll([c \in 1..Len(schema) |->
            IF schema[c] \notin SupportedTypes
            THEN (IF Len(rows) = 0 THEN Ok(<<>>)
                  ELSE Err("not supported in response transformation"))
            ELSE BuildColumn(schema[c], member_fields[c], rows)]))

\* transform_response: schema is a sequence of column types, member_fields the
\* bindings; a batch [schema, columns], or the first fatal error in schema order.
TransformResponse(rows, schema, member_fields) ==
    NewRecordBatch(schema,
        FirstErrorOrAll([c \in 1..Len(schema) |->
            IF schema[c] \notin SupportedTypes
            THEN Err("not supported in response transformation")
            ELSE BuildColumn(schema[c], member_fields[c], rows)]))

NumRows(batch) == Len(batch.columns[1])

-----------------------------------------------------------------------------
(* Errors *)

\* CubeError { message, cause }; messages are sequences of words so that
\* str::contains is a real search.
CubeError(cause, message) == [cause |-> cause, message |-> message]

\* <CubeError as Display>::fmt, used by err.to_string(): "{cause:?}: {message}"
ErrToString(err) == <<err.cause, ":">> \o err.message

\* str::contains on word sequences
Contains(hay, needle) ==
    \E i \in 0..(Len(hay) - Len(needle)) :
        \A j \in 1..Len(needle) : hay[i + j] = needle[j]

NotImplementedNeedle == <<"streamQuery()", "method is not implemented yet">>

ComputeError(msg)   == [variant |-> "ArrowError::ComputeError", msg |-> msg]
ExecutionError(msg) == [variant |-> "DataFusionError::Execution", msg |-> msg]
\* From<ArrowError> for DataFusionError (the `?` of execute on load_data's result)
DFArrowError(e)     == [variant |-> "DataFusionError::ArrowError", msg |-> e.msg]
\* From<DataFusionError> for ArrowError (e.into() in poll_next)
ArrowExternal(e)    == [variant |-> "ArrowError::ExternalError", msg |-> e.msg]

MaxRecordsMessage  == <<"One of the Cube queries exceeded the maximum row limit">>
NoResultMessage    == <<"Unable to extract result from Cube.js response">>
CantLoadMessage    == <<"Can't load to stream">>

-----------------------------------------------------------------------------
(* load_data *)

CountOpt(o) == IF o = {} THEN 0 ELSE Len(Unwrap(o))

\* time_dimensions.map(|v| v.iter().filter(|d| d.granularity.is_some()).count()).unwrap_or(0)
GranularCount(o) ==
    IF o = {} THEN 0
    ELSE LET v == Unwrap(o) IN Cardinality({i \in 1..Len(v) : IsSome(v[i].granularity)})

no_members_query(request) ==
    /\ CountOpt(request.measures) = 0
    /\ CountOpt(request.dimensions) = 0
    /\ GranularCount(request.time_dimensions) = 0

\* `for _ in 0..limit { data.push(Value::Null) }`
NullRows(limit) == [i \in 1..(IF limit > 0 THEN limit ELSE 0) |-> JNull]

\* Variant: a result of exactly max_records rows passes
MaxRecordsTrippedAbove(max_records, len) ==
    IsSome(max_records) /\ len > Unwrap(max_records)

\* The max_records match of load_data on the popped result
MaxRecordsTripped(max_records, len) ==
    IsSome(max_records) /\ len >= Unwrap(max_records)

\* Variant: the max_records match is applied to the synthesized rows too
LoadDataGuardsSynthesized(request, options, reply) ==
    IF no_members_query(request)
    THEN IF MaxRecordsTripped(options.max_records, Len(NullRows(UnwrapOr(request.limit, 1))))
         THEN [kind |-> "err", err |-> ComputeError(MaxRecordsMessage)]
         ELSE [kind |-> "ok", data |-> NullRows(UnwrapOr(request.limit, 1))]
    ELSE CASE reply.kind = "panic" -> [kind |-> "panic"]
           [] reply.kind = "error" ->
                [kind |-> "err", err |-> ComputeError(ErrToString(reply.err))]
           [] reply.kind = "response" ->
                IF Len(reply.results) = 0
                THEN [kind |-> "err", err |-> ComputeError(NoResultMessage)]
                ELSE LET data == reply.results[Len(reply.results)] IN
                     IF MaxRecordsTripped(options.max_records, Len(data))
                     THEN [kind |-> "err", err |-> ComputeError(MaxRecordsMessage)]
                     ELSE [kind |-> "ok", data |-> data]

\* load_data: `reply` is what transport.load answers if it is called.
\* Result: [kind |-> "ok", data], [kind |-> "err", err] or [kind |-> "panic"]
\* (the transport panicked inside the future).
load_data(request, options, reply) ==
    IF no_members_query(request)
    THEN [kind |-> "ok", data |-> NullRows(UnwrapOr(request.limit, 1))]
    ELSE CASE reply.kind = "panic" -> [kind |-> "panic"]
           [] reply.kind = "error" ->
                [kind |-> "err", err |-> ComputeError(ErrToString(reply.err))]
           [] reply.kind = "response" ->
                IF Len(reply.results) = 0
                THEN [kind |-> "err", err |-> ComputeError(NoResultMessage)]
                ELSE LET data == reply.results[Len(reply.results)] IN
                     IF MaxRecordsTripped(options.max_records, Len(data))
                     THEN [kind |-> "err", err |-> ComputeError(MaxRecordsMessage)]
                     ELSE [kind |-> "ok", data |-> data]

\* The transport.load call load_data makes (none for a no-members query)
LoadCalls(request, meta, sql) ==
    IF no_members_query(request) THEN <<>>
    ELSE << [op |-> "load", request |-> request, meta |-> meta, sql |-> sql] >>

-----------------------------------------------------------------------------
(* execute: mode selection, limit clamp, metadata *)

\* Variant: streaming also at limit = default
StreamModeSelectedAtDefault(stream_mode, limit, query_limit) ==
    \/ stream_mode /\ IsNone(limit)
    \/ stream_mode /\ IsSome(limit) /\ Unwrap(limit) >= query_limit

\* match (stream_mode, self.request.limit)
StreamModeSelected(stream_mode, limit, query_limit) ==
    \/ stream_mode /\ IsNone(limit)
    \/ stream_mode /\ IsSome(limit) /\ Unwrap(limit) > query_limit

\* Variant: an unset limit is left unset
ClampLimitKeepsUnset(limit, query_limit) ==
    IF UnwrapOr(limit, 0) > query_limit THEN Some(query_limit) ELSE limit

\* request.limit.unwrap_or_default() > query_limit || request.limit.is_none()
ClampLimit(limit, query_limit) ==
    IF UnwrapOr(limit, 0) > query_limit \/ IsNone(limit)
    THEN Some(query_limit) ELSE limit

ClampedRequest(request, query_limit) ==
    [request EXCEPT !.limit = ClampLimit(request.limit, query_limit)]

\* Variant: an unset option leaves the metadata's change_user in place
MetaWithChangeUserMerged(meta, change_user) ==
    IF change_user = None THEN meta ELSE [meta EXCEPT !.change_user = change_user]

\* meta.set_change_user(self.options.change_user.clone())
MetaWithChangeUser(meta, change_user) == [meta EXCEPT !.change_user = change_user]

\* The request execute() passes to transport.load_stream
StreamRequest(p, query_limit) == p.request

\* CubeScanOneShotStream::new(..) as execute() calls it
NewOneShotStream(p, query_limit) ==
    [ data          |-> None,
      schema        |-> p.schema,
      member_fields |-> p.member_fields,
      request       |-> ClampedRequest(p.request, query_limit),
      meta          |-> MetaWithChangeUser(p.meta, p.options.change_user),
      options       |-> p.options,
      wrapped_sql   |-> p.wrapped_sql ]

\* Variant: a failing materialization gives an empty batch
FetchedBatchSwallowsError(t) ==
    IF t.ok THEN [kind |-> "ok", batch |-> t.v]
            ELSE [kind |-> "ok", batch |-> [schema |-> <<>>, columns |-> <<>>]]

\* execute() on what transform_response returned:
\* .map_err(|e| DataFusionError::Execution(e.message.to_string()))
FetchedBatch(t) ==
    IF t.ok THEN [kind |-> "ok", batch |-> t.v]
            ELSE [kind |-> "err", err |-> ExecutionError(<<t.msg>>)]

\* execute() on what load_data returned: `?`, then transform_response
FetchedData(oss, res) ==
    CASE res.kind = "panic" -> [kind |-> "panic"]
      [] res.kind = "err"   -> [kind |-> "err", err |-> DFArrowError(res.err)]
      [] res.kind = "ok"    ->
           FetchedBatch(TransformResponse(res.data, oss.schema, oss.member_fields))

\* The one-shot part of execute(): load_data, then transform_response.
\* [kind |-> "ok", batch] | [kind |-> "err", err] | [kind |-> "panic"]
OneShotFetch(oss, reply) ==
    FetchedData(oss, load_data(oss.request, oss.options, reply))

\* Variant: the materialized batch is not stored in the one-shot stream
StoredBatchDropped(oss, t) ==
    IF t.ok THEN [kind |-> "ok", oss |-> oss]
            ELSE [kind |-> "err", oss |-> oss, err |-> ExecutionError(<<t.msg>>)]

\* load_to_stream_sync on what transform_response returned
StoredBatch(oss, t) ==
    IF t.ok THEN [kind |-> "ok", oss |-> [oss EXCEPT !.data = Some(t.v)]]
            ELSE [kind |-> "err", oss |-> oss, err |-> ExecutionError(<<t.msg>>)]

\* Variant: a panic of the spawned thread is resumed on the polling thread
JoinedDataResumesPanic(oss, res) ==
    CASE res.kind = "panic" -> [kind |-> "panic", oss |-> oss]
      [] res.kind = "err"   -> [kind |-> "panic", oss |-> oss]
      [] res.kind = "ok"    ->
           StoredBatch(oss, TransformResponse(res.data, oss.schema, oss.member_fields))

\* load_to_stream_sync on what the spawned thread's load_data did: a panic of
\* the thread makes join() fail; res.unwrap() panics on an Err of load_data.
JoinedData(oss, res) ==
    CASE res.kind = "panic" ->
           [kind |-> "err", oss |-> oss, err |-> ExecutionError(CantLoadMessage)]
      [] res.kind = "err"   -> [kind |-> "panic", oss |-> oss]
      [] res.kind = "ok"    ->
           StoredBatch(oss, TransformResponse(res.data, oss.schema, oss.member_fields))

\* load_to_stream_sync: the new one_shot_stream and Ok / Err / panic
load_to_stream_sync(oss, reply) ==
    JoinedData(oss, load_data(oss.request, oss.options, reply))

-----------------------------------------------------------------------------
(* Inputs of the model *)

\* CUBEJS_DB_QUERY_LIMIT and request.limit
QueryLimits == {2, 3}
Limits      == {None, Some(1), Some(2), Some(3)}

\* (measures, dimensions, time_dimensions) of the request
RequestShapes ==
    { [measures |-> None, dimensions |-> None, time_dimensions |-> None],
      [measures |-> Some(<<>>), dimensions |-> Some(<<>>),
       time_dimensions |-> Some(<< [dimension |-> "t", granularity |-> None] >>)],
      [measures |-> Some(<<"m">>), dimensions |-> None,
       time_dimensions |-> Some(<< [dimension |-> "t", granularity |-> Some("day")] >>)] }

\* The rest of the plan: schema, member_fields, options.change_user,
\* options.max_records and meta.change_user as the planner injected it
PlanVariants ==
    { [schema |-> <<"Int64">>, member_fields |-> <<Member("a")>>,
       change_user |-> Some("bob"), max_records |-> None, meta_user |-> None],
      [schema |-> <<"Int64">>, member_fields |-> <<Member("a")>>,
       change_user |-> None, max_records |-> Some(1), meta_user |-> Some("stale")],
      [schema |-> <<"Utf8">>, member_fields |-> <<Literal(Scalar("Utf8", Some("lit")))>>,
       change_user |-> Some("bob"), max_records |-> Some(2), meta_user |-> Some("stale")],
      [schema |-> <<"TimestampNanosecond", "Boolean">>,
       member_fields |-> <<Member("a"), Literal(Scalar("Boolean", None))>>,
       change_user |-> None, max_records |-> Some(2), meta_user |-> None] }

\* Rows a transport.load result may hold
RowSamples ==
    { JObject([a |-> JNum(500)]),
      JObject([b |-> JStr("5")]) }

DataSets == UNION { [1..n -> RowSamples] : n \in 0..MaxRows }

\* Results with a row JsonValueObject::get rejects: a field holding an array,
\* and a row that is not an object
MalformedData ==
    { << JObject([a |-> JArray]) >>, << JNull >> }

\* What transport.load may answer
LoadReplies ==
    { [kind |-> "panic"],
      [kind |-> "error", err |-> CubeError("Internal", <<"timeout">>)],
      [kind |-> "response", results |-> <<>>] }
    \cup { [kind |-> "response", results |-> <<d>>] : d \in DataSets }
    \cup { [kind |-> "response", results |-> <<d>>] : d \in MalformedData }

\* The reply of a transport.load that is never called
NoReply == [kind |-> "none"]

\* The replies to consider for a step that makes the transport calls `c`
RepliesFor(c) == IF c = <<>> THEN {NoReply} ELSE LoadReplies

\* Errors a stream channel may carry
NotImplementedError == CubeError("User", NotImplementedNeedle)
ChannelErrors ==
    { NotImplementedError,
      CubeError("User", <<"streamQuery()", "timed out">>) }

\* Elements of the channel: Some(Ok(chunk)), Some(Err(err)), None
ChunkElem(id) == [e |-> "chunk", id |-> id]
ErrElem(err)  == [e |-> "err", err |-> err]
EndElem       == [e |-> "end"]

IsNotImplemented(elem) ==
    elem.e = "err" /\ Contains(ErrToString(elem.err), NotImplementedNeedle)

-----------------------------------------------------------------------------
(* Stream items and poll results *)

BatchItem(b) == [kind |-> "batch", batch |-> b]       \* Some(Ok(batch))
ErrItem(e)   == [kind |-> "err", err |-> e]           \* Some(Err(e))

Pending      == [p |-> "pending"]
Ready(opt)   == [p |-> "ready", item |-> opt]         \* Poll::Ready(Option<item>)

\* Variant: the end marker is not reported as end-of-stream
MemoryStreamPollSkipsEnd(recv) ==
    IF recv = None THEN Pending
    ELSE LET r == Unwrap(recv) IN
         IF r = None THEN Ready(None)
         ELSE LET elem == Unwrap(r) IN
              CASE elem.e = "chunk" -> Ready(Some(BatchItem([chunk |-> elem.id])))
                [] elem.e = "err"   ->
                     Ready(Some(ErrItem(ComputeError(ErrToString(elem.err)))))
                [] elem.e = "end"   -> Pending

\* CubeScanMemoryStream::poll_next on what poll_recv returned:
\* recv = None (Pending) or Some(r), r = None (closed) or Some(elem)
MemoryStreamPoll(recv) ==
    IF recv = None THEN Pending
    ELSE LET r == Unwrap(recv) IN
         IF r = None THEN Ready(None)
         ELSE LET elem == Unwrap(r) IN
              CASE elem.e = "chunk" -> Ready(Some(BatchItem([chunk |-> elem.id])))
                [] elem.e = "err"   ->
                     Ready(Some(ErrItem(ComputeError(ErrToString(elem.err)))))
                [] elem.e = "end"   -> Ready(None)

\* Receiver::poll_recv
PollRecv(c) ==
    IF c.queue # <<>> THEN Some(Some(Head(c.queue)))
    ELSE IF c.closed THEN Some(None)
    ELSE None

\* Variant: the batch is cloned out of the stream instead of taken
OneShotPollKeepsData(oss) ==
    [ item |-> IF IsSome(oss.data) THEN Some(BatchItem(Unwrap(oss.data))) ELSE None,
      oss  |-> oss ]

\* CubeScanOneShotStream::poll_next: (the item, the stream after data.take())
OneShotPoll(oss) ==
    [ item |-> IF IsSome(oss.data) THEN Some(BatchItem(Unwrap(oss.data))) ELSE None,
      oss  |-> [oss EXCEPT !.data = None] ]

\* Variant: any error of the channel takes the downgrade branch
DowngradeTriggeredByAnyError(next) ==
    /\ next.p = "ready"
    /\ IsSome(next.item)
    /\ Unwrap(next.item).kind = "err"

\* Does poll_next take the downgrade branch on this result of main_stream.poll_next
DowngradeTriggered(next) ==
    /\ next.p = "ready"
    /\ IsSome(next.item)
    /\ Unwrap(next.item).kind = "err"
    /\ Unwrap(next.item).err.variant = "ArrowError::ComputeError"
    /\ Contains(Unwrap(next.item).err.msg, NotImplementedNeedle)

\* The result of a poll that went to one_shot_stream.poll_next()
OneShotResult(o, polled, fetched, c) ==
    [ms |-> None, oss |-> o.oss,
     res |-> IF IsSome(o.item) THEN "item" ELSE "end",
     item |-> o.item, polled |-> polled, fetched |-> fetched, calls |-> c]

\* Variant: the downgrade keeps the channel
DowngradedKeepsChannel(l, c) ==
    CASE l.kind = "panic" ->
           [ms |-> Some("receiver"), oss |-> l.oss, res |-> "panic", item |-> None,
            polled |-> TRUE, fetched |-> TRUE, calls |-> c]
      [] l.kind = "err" ->
           [ms |-> Some("receiver"), oss |-> l.oss, res |-> "item",
            item |-> Some(ErrItem(ArrowExternal(l.err))),
            polled |-> TRUE, fetched |-> TRUE, calls |-> c]
      [] l.kind = "ok" ->
           [OneShotResult(OneShotPoll(l.oss), TRUE, TRUE, c) EXCEPT !.ms = Some("receiver")]

\* The downgrade branch of poll_next on what load_to_stream_sync returned
Downgraded(l, c) ==
    CASE l.kind = "panic" ->
           [ms |-> None, oss |-> l.oss, res |-> "panic", item |-> None,
            polled |-> TRUE, fetched |-> TRUE, calls |-> c]
      [] l.kind = "err" ->
           [ms |-> None, oss |-> l.oss, res |-> "item",
            item |-> Some(ErrItem(ArrowExternal(l.err))),
            polled |-> TRUE, fetched |-> TRUE, calls |-> c]
      [] l.kind = "ok" -> OneShotResult(OneShotPoll(l.oss), TRUE, TRUE, c)

\* `return next`
Forwarded(ms, oss, next) ==
    [ms |-> ms, oss |-> oss,
     res |-> IF next.p = "pending" THEN "pending"
             ELSE IF IsSome(next.item) THEN "item" ELSE "end",
     item |-> IF next.p = "pending" THEN None ELSE next.item,
     polled |-> TRUE, fetched |-> FALSE, calls |-> <<>>]

\* Variant: a not-implemented error is forwarded like any other error
StreamingPollForwardsAll(ms, oss, next, reply) ==
    Forwarded(ms, oss, next)

\* The Some(main_stream) arm of poll_next on what main_stream.poll_next returned
StreamingPoll(ms, oss, next, reply) ==
    IF DowngradeTriggered(next)
    THEN Downgraded(load_to_stream_sync(oss, reply),
                    LoadCalls(oss.request, oss.meta, oss.wrapped_sql))
    ELSE Forwarded(ms, oss, next)

\* CubeScanStreamRouter::poll_next. ms, oss: the router's fields; recv: what
\* poll_recv returns if the channel is polled; reply: what transport.load
\* answers if it is called. Result: the fields after the poll, what the poll
\* returned ("pending", "item", "end" or "panic"), and what it did.
RouterPoll(ms, oss, recv, reply) ==
    IF IsSome(ms)
    THEN StreamingPoll(ms, oss, MemoryStreamPoll(recv), reply)
    ELSE OneShotResult(OneShotPoll(oss), FALSE, FALSE, <<>>)

-----------------------------------------------------------------------------
(* Specification Spec: one execution of one plan *)

NoChannel  == [queue |-> <<>>, closed |-> FALSE, sent |-> 0]
NoOneShot  == [data |-> None]          \* no router exists
MatIdle    == /\ matIn = [response |-> <<>>, schema |-> <<>>, member_fields |-> <<>>]
              /\ matOut = None
PlannerIdle == /\ lowering = [node |-> [kind |-> "none"]]
               /\ lowered = None
               /\ template = [node |-> [kind |-> "none"]]
               /\ rebuilt = None
ServiceIdle == /\ conn = [alive |-> FALSE]
               /\ server = [pc |-> "none"]
SchedIdle  == /\ workers = <<>>
              /\ tasks = <<>>
              /\ threads = <<>>
              /\ driver = 0

Plans ==
    { [ schema        |-> v.schema,
        member_fields |-> v.member_fields,
        request       |-> [ measures        |-> shape.measures,
                            dimensions      |-> shape.dimensions,
                            time_dimensions |-> shape.time_dimensions,
                            limit           |-> limit ],
        wrapped_sql   |-> None,
        options       |-> [change_user |-> v.change_user, max_records |-> v.max_records],
        meta          |-> [protocol |-> "postgres", change_user |-> v.meta_user] ] :
      v \in PlanVariants, shape \in RequestShapes, limit \in Limits }

\* Before execute() is called
ExecIdle ==
    /\ execs = 0
    /\ pc = "idle"
    /\ execResult = None
    /\ main_stream = None
    /\ one_shot_stream = NoOneShot
    /\ chan = NoChannel
    /\ calls = <<>>
    /\ trace = <<>>

\* Spec follows the one execute(0) call that a plan with
\* output_partitioning() = UnknownPartitioning(1) gets
Init ==
    /\ env \in [stream_mode : BOOLEAN, query_limit : QueryLimits]
    /\ plan \in Plans
    /\ partition = 0
    /\ ExecIdle
    /\ ServiceIdle
    /\ SchedIdle
    /\ MatIdle
    /\ PlannerIdle

\* CubeScanExecutionPlan::execute in streaming mode: `opened` is whether
\* transport.load_stream returns a receiver or an error.
ExecuteStreaming(oss, opened) ==
    /\ calls' = Append(calls, [op |-> "load_stream",
                               request |-> StreamRequest(plan, env.query_limit),
                               meta |-> oss.meta, sql |-> plan.wrapped_sql])
    /\ chan' = NoChannel
    /\ IF opened
       THEN /\ pc' = "stream"
            /\ main_stream' = Some("receiver")
            /\ one_shot_stream' = oss
            /\ execResult' = Some([ret |-> "ok", stream_mode |-> TRUE, reply |-> None])
       ELSE /\ pc' = "error"
            /\ main_stream' = None
            /\ one_shot_stream' = NoOneShot
            /\ execResult' = Some([ret |-> "err", stream_mode |-> TRUE, reply |-> None,
                                   err |-> ExecutionError(
                                       ErrToString(CubeError("Internal", <<"no stream">>)))])

\* The end of execute() in one-shot mode on what the fetch produced
ExecuteOneShotReturn(oss, f, asked) ==
    /\ main_stream' = None
    /\ chan' = NoChannel
    /\ CASE f.kind = "ok" ->
              /\ pc' = "stream"
              /\ one_shot_stream' = [oss EXCEPT !.data = Some(f.batch)]
              /\ execResult' = Some([ret |-> "ok", stream_mode |-> FALSE, reply |-> asked])
         [] f.kind = "err" ->
              /\ pc' = "error"
              /\ one_shot_stream' = NoOneShot
              /\ execResult' = Some([ret |-> "err", stream_mode |-> FALSE, reply |-> asked,
                                     err |-> f.err])
         [] f.kind = "panic" ->
              /\ pc' = "panic"
              /\ one_shot_stream' = NoOneShot
              /\ execResult' = Some([ret |-> "panic", stream_mode |-> FALSE, reply |-> asked])

\* CubeScanExecutionPlan::execute in one-shot mode: `reply` is what
\* transport.load answers if load_data calls it.
ExecuteOneShot(oss, reply) ==
    /\ calls' = calls \o LoadCalls(oss.request, oss.meta, oss.wrapped_sql)
    /\ ExecuteOneShotReturn(oss, OneShotFetch(oss, reply),
                            IF reply = NoReply THEN None ELSE Some(reply))

\* Variant: the clamp and the change_user merge are applied to the plan itself
PlanAfterExecuteClamped(p, query_limit) ==
    [p EXCEPT !.request = ClampedRequest(p.request, query_limit),
              !.meta = MetaWithChangeUser(p.meta, p.options.change_user)]

\* The plan after execute(&self, ..): self is borrowed immutably, the clamp and
\* the change_user merge go to clones
PlanAfterExecute(p, query_limit) == p

\* CubeScanExecutionPlan::execute; the partition index is not read
Execute ==
    /\ pc = "idle"
    /\ LET oss == NewOneShotStream(plan, env.query_limit) IN
       IF StreamModeSelected(env.stream_mode, plan.request.limit, env.query_limit)
       THEN \E opened \in BOOLEAN : ExecuteStreaming(oss, opened)
       ELSE \E reply \in RepliesFor(LoadCalls(oss.request, oss.meta, oss.wrapped_sql)) :
               ExecuteOneShot(oss, reply)
    /\ execs' = execs + 1
    /\ plan' = PlanAfterExecute(plan, env.query_limit)
    /\ UNCHANGED <<env, partition, trace, schedVars, matVars, plannerVars, serviceVars>>

\* The transport side of the channel sends one element
ChannelSend ==
    /\ pc = "stream"
    /\ IsSome(main_stream)
    /\ ~chan.closed
    /\ chan.sent < MaxChan
    /\ \E elem \in {ChunkElem(chan.sent + 1), EndElem} \cup {ErrElem(e) : e \in ChannelErrors} :
          chan' = [chan EXCEPT !.queue = Append(@, elem), !.sent = @ + 1]
    /\ UNCHANGED <<env, plan, partition, execs, pc, execResult, main_stream, one_shot_stream,
                   calls, trace, schedVars, matVars, plannerVars, serviceVars>>

\* The transport side of the channel drops its sender
ChannelClose ==
    /\ pc = "stream"
    /\ IsSome(main_stream)
    /\ ~chan.closed
    /\ chan' = [chan EXCEPT !.closed = TRUE]
    /\ UNCHANGED <<env, plan, partition, execs, pc, execResult, main_stream, one_shot_stream,
                   calls, trace, schedVars, matVars, plannerVars, serviceVars>>

\* The transport calls the coming poll_next makes (the load of a downgrade)
PollCalls(ms, oss, recv) ==
    IF IsSome(ms) /\ DowngradeTriggered(MemoryStreamPoll(recv))
    THEN LoadCalls(oss.request, oss.meta, oss.wrapped_sql)
    ELSE <<>>

\* The element poll_recv takes off the channel, if the channel is polled and holds one
RecvElem(ms, recv) ==
    IF IsSome(ms) /\ recv # None THEN Unwrap(recv) ELSE None

\* The effect of one poll_next: r is what RouterPoll computed, got the element
\* poll_recv took off the channel (if any)
PollEffect(r, got, reply) ==
    /\ main_stream' = r.ms
    /\ one_shot_stream' = r.oss
    /\ calls' = calls \o r.calls
    /\ chan' = IF IsSome(got) THEN [chan EXCEPT !.queue = Tail(@)] ELSE chan
    /\ trace' = Append(trace,
         [ res       |-> r.res,
           item      |-> r.item,
           streaming |-> IsSome(main_stream),
           polled    |-> r.polled,
           fetched   |-> r.fetched,
           reply     |-> IF reply = NoReply THEN None ELSE Some(reply),
           elem      |-> got,
           closed    |-> chan.closed ])
    /\ pc' = IF r.res = "panic" THEN "panic" ELSE pc

\* The consumer polls the stream execute() returned: CubeScanStreamRouter::poll_next
Poll ==
    /\ pc = "stream"
    /\ Len(trace) < MaxPolls
    /\ \E reply \in RepliesFor(PollCalls(main_stream, one_shot_stream, PollRecv(chan))) :
         PollEffect(RouterPoll(main_stream, one_shot_stream, PollRecv(chan), reply),
                    RecvElem(main_stream, PollRecv(chan)),
                    reply)
    /\ UNCHANGED <<env, plan, partition, execs, execResult, schedVars, matVars, plannerVars, serviceVars>>

Next == Execute \/ ChannelSend \/ ChannelClose \/ Poll

Spec == Init /\ [][Next]_vars

-----------------------------------------------------------------------------
(* Specification ExecSpec: execute() called up to MaxExecs times on one plan,
   with any partition index *)

Partitions == {0, 1}

ExecInit ==
    /\ env \in [stream_mode : BOOLEAN, query_limit : QueryLimits]
    /\ plan \in Plans
    /\ partition \in Partitions
    /\ ExecIdle
    /\ ServiceIdle
    /\ SchedIdle
    /\ MatIdle
    /\ PlannerIdle

\* What the previous execute() returned is dropped and the plan is executed again
Reexecute ==
    /\ pc # "idle"
    /\ execs < MaxExecs
    /\ pc' = "idle"
    /\ execResult' = None
    /\ main_stream' = None
    /\ one_shot_stream' = NoOneShot
    /\ chan' = NoChannel
    /\ calls' = <<>>
    /\ trace' = <<>>
    /\ \E i \in Partitions : partition' = i
    /\ UNCHANGED <<env, plan, execs, schedVars, matVars, plannerVars, serviceVars>>

ExecNext == Execute \/ Reexecute

ExecSpec == ExecInit /\ [][ExecNext]_vars

-----------------------------------------------------------------------------
(* Specification MatSpec: one transform_response call on a row source, a
   schema and member_fields drawn from the sets below *)

\* Column types: the supported ones and one transform_response has no arm for
ColumnTypes == SupportedTypes \cup {"Binary"}

\* What the field "a" of a row may hold
MatValues ==
    { JNull, JStr("5"), JStr("x"), JStr("true"), JStr("false"), JStr("1"), JStr("0"),
      JStr("2022-01-01"), JStr("2022-01-01T00:00:00.000"),
      JNum(500), JNum(505), JBool(TRUE), JArray }

\* Rows: objects with the field "a", an object without it, and a row that is
\* not an object
MatRowSamples ==
    { JObject([a |-> v]) : v \in MatValues } \cup { JObject([b |-> JStr("5")]), JNull }

\* Rows given to schemas that bind no Member
LiteralRowSamples == { JObject([a |-> JStr("5")]), JNull, JArray }

RowSources(samples) == UNION { [1..n -> samples] : n \in 0..MaxRows }

\* The rows of the "count" member in the load response of test_df_cube_scan_execute:
\* null, the number 5 and the string "5"
ScenarioRows ==
    << JObject([a |-> JNull]), JObject([a |-> JNum(500)]), JObject([a |-> JStr("5")]) >>

\* One literal with a value per scalar kind, and the null literal of each kind
LiteralValueOf(kind) ==
    CASE kind = "Utf8"    -> "lit"
      [] kind = "Boolean" -> TRUE
      [] kind = "Float64" -> 505
      [] OTHER            -> 7

Literals ==
    { Literal(Scalar(k, None)) : k \in ColumnTypes }
    \cup { Literal(Scalar(k, Some(LiteralValueOf(k)))) : k \in ColumnTypes }

\* Schemas of two columns, for the order in which columns are built
TwoColumns ==
    { [schema |-> <<"Int64", "Utf8">>, member_fields |-> <<Member("a"), Member("a")>>],
      [schema |-> <<"Boolean", "TimestampNanosecond">>,
       member_fields |-> <<Member("a"), Member("a")>>],
      [schema |-> <<"Date32", "Binary">>, member_fields |-> <<Member("a"), Member("a")>>],
      [schema |-> <<"Float64", "Utf8">>,
       member_fields |-> <<Member("a"), Literal(Scalar("Int64", Some(7)))>>],
      [schema |-> <<"Utf8", "Int32">>,
       member_fields |-> <<Literal(Scalar("Utf8", Some("lit"))), Member("a")>>] }

\* The calls of the model, for the rows given to schemas that bind a Member
\* and the rows given to schemas that bind none
MatInputs(samples, literal_samples) ==
    { [response |-> r, schema |-> <<t>>, member_fields |-> <<Member("a")>>] :
        r \in RowSources(samples), t \in ColumnTypes }
    \cup { [response |-> r, schema |-> <<t>>, member_fields |-> <<l>>] :
        r \in RowSources(literal_samples), t \in ColumnTypes, l \in Literals }
    \cup { [response |-> r, schema |-> c.schema, member_fields |-> c.member_fields] :
        r \in RowSources(samples), c \in TwoColumns }
    \cup { [response |-> r, schema |-> <<>>, member_fields |-> <<>>] :
        r \in RowSources(literal_samples) }
    \cup { [response |-> ScenarioRows, schema |-> <<t>>, member_fields |-> <<Member("a")>>] :
        t \in ColumnTypes }

MatInit ==
    /\ matIn \in MatInputs(MatRowSamples, LiteralRowSamples)
    /\ matOut = None
    /\ env = [stream_mode |-> FALSE, query_limit |-> 2]
    /\ plan = CHOOSE p \in Plans : TRUE
    /\ partition = 0
    /\ ExecIdle
    /\ ServiceIdle
    /\ SchedIdle
    /\ PlannerIdle

\* transform_response(&mut response, schema, &member_fields)
Materialize ==
    /\ matOut = None
    /\ matOut' = Some(TransformResponse(matIn.response, matIn.schema, matIn.member_fields))
    /\ UNCHANGED <<matIn, execVars, schedVars, plannerVars, serviceVars>>

MatNext == Materialize

MatSpec == MatInit /\ [][MatNext]_vars

-----------------------------------------------------------------------------
(* Specification LowerSpec: one plan_extension call of a
   CubeScanExtensionPlanner on a logical node drawn from the sets below *)

\* DFSchema: qualified fields; SchemaRef::new(schema.as_ref().into()) keeps the
\* fields' types in order and drops the qualifiers
DFField(qualifier, type) == [qualifier |-> qualifier, type |-> type]
ToArrowSchema(df_schema) == [i \in DOMAIN df_schema |-> df_schema[i].type]

CubeScanNode(schema, member_fields, request, auth_context, options, used_cubes, span_id) ==
    [ kind          |-> "CubeScanNode",
      schema        |-> schema,
      member_fields |-> member_fields,
      request       |-> request,
      auth_context  |-> auth_context,
      options       |-> options,
      used_cubes    |-> used_cubes,
      span_id       |-> span_id ]

\* CubeScanWrapperNode as plan_extension reads it; wrapped_plan is given by its
\* cube scan leaves in the order find_cube_scans_deep_search returns them
CubeScanWrapperNode(wrapped_plan, schema, member_fields, wrapped_sql, request) ==
    [ kind          |-> "CubeScanWrapperNode",
      wrapped_plan  |-> wrapped_plan,
      schema        |-> schema,
      member_fields |-> member_fields,
      wrapped_sql   |-> wrapped_sql,
      request       |-> request ]

\* A user-defined node of another type
OtherNode(name) == [kind |-> name]

find_cube_scans_deep_search(wrapped_plan) == wrapped_plan

InternalError(msg) == [variant |-> "DataFusionError::Internal", msg |-> msg]

NoCubeScansMessage    == <<"No cube scans found in wrapper node">>
NoMemberFieldsMessage == <<"Member fields are not set for wrapper node">>
NoWrappedSqlMessage   == <<"Wrapped SQL is not set for wrapper node">>

\* Ok(Some(plan)), Ok(None), Err(e), or the panic of an assert_eq!
Planned(p)       == [kind |-> "plan", plan |-> p]
NotApplicable    == [kind |-> "none"]
PlanError(e)     == [kind |-> "err", err |-> e]
PlanPanic        == [kind |-> "panic"]

\* Variant: the scan node's lowering carries a wrapped_sql and no planner meta
LowerScanWithoutInjection(planner, scan_node) ==
    Planned([ schema        |-> ToArrowSchema(scan_node.schema),
              member_fields |-> scan_node.member_fields,
              transport     |-> planner.transport,
              request       |-> scan_node.request,
              wrapped_sql   |-> Some("sql"),
              auth_context  |-> scan_node.auth_context,
              options       |-> scan_node.options,
              meta          |-> [protocol |-> "none", change_user |-> None],
              span_id       |-> scan_node.span_id ])

\* plan_extension, CubeScanNode arm
LowerScan(planner, scan_node) ==
    Planned([ schema        |-> ToArrowSchema(scan_node.schema),
              member_fields |-> scan_node.member_fields,
              transport     |-> planner.transport,
              request       |-> scan_node.request,
              wrapped_sql   |-> None,
              auth_context  |-> scan_node.auth_context,
              options       |-> scan_node.options,
              meta          |-> planner.meta,
              span_id       |-> scan_node.span_id ])

\* Variant: unset member_fields are lowered as no member fields
LowerWrapperDefaultsFields(planner, wrapper_node) ==
    LET found == find_cube_scans_deep_search(wrapper_node.wrapped_plan) IN
    IF Len(found) = 0 THEN PlanError(InternalError(NoCubeScansMessage))
    ELSE IF IsNone(wrapper_node.wrapped_sql)
    THEN PlanError(InternalError(NoWrappedSqlMessage))
    ELSE LET scan_node == found[1] IN
         Planned([ schema        |-> ToArrowSchema(wrapper_node.schema),
                   member_fields |-> UnwrapOr(wrapper_node.member_fields, <<>>),
                   transport     |-> planner.transport,
                   request       |-> UnwrapOr(wrapper_node.request, scan_node.request),
                   wrapped_sql   |-> Some(Unwrap(wrapper_node.wrapped_sql)),
                   auth_context  |-> scan_node.auth_context,
                   options       |-> scan_node.options,
                   meta          |-> planner.meta,
                   span_id       |-> scan_node.span_id ])

\* plan_extension, CubeScanWrapperNode arm: each `?` in the order it is evaluated
LowerWrapper(planner, wrapper_node) ==
    LET found == find_cube_scans_deep_search(wrapper_node.wrapped_plan) IN
    IF Len(found) = 0 THEN PlanError(InternalError(NoCubeScansMessage))
    ELSE IF IsNone(wrapper_node.member_fields)
    THEN PlanError(InternalError(NoMemberFieldsMessage))
    ELSE IF IsNone(wrapper_node.wrapped_sql)
    THEN PlanError(InternalError(NoWrappedSqlMessage))
    ELSE LET scan_node == found[1] IN
         Planned([ schema        |-> ToArrowSchema(wrapper_node.schema),
                   member_fields |-> Unwrap(wrapper_node.member_fields),
                   transport     |-> planner.transport,
                   request       |-> UnwrapOr(wrapper_node.request, scan_node.request),
                   wrapped_sql   |-> Some(Unwrap(wrapper_node.wrapped_sql)),
                   auth_context  |-> scan_node.auth_context,
                   options       |-> scan_node.options,
                   meta          |-> planner.meta,
                   span_id       |-> scan_node.span_id ])

\* CubeScanExtensionPlanner::plan_extension
plan_extension(planner, node, logical_inputs, physical_inputs) ==
    CASE node.kind = "CubeScanNode" ->
           (IF logical_inputs # 0 \/ physical_inputs # 0 THEN PlanPanic
            ELSE LowerScan(planner, node))
      [] node.kind = "CubeScanWrapperNode" -> LowerWrapper(planner, node)
      [] OTHER -> NotApplicable

\* Logical nodes of the model
DFSchemas ==
    { << DFField(None, "Int64") >>,
      << DFField(Some("t"), "Utf8"), DFField(Some("t"), "Boolean") >> }

MemberFieldLists ==
    { << Member("a") >>, << Member("a"), Literal(Scalar("Boolean", None)) >> }

LogicalRequests ==
    { [measures |-> Some(<<"m">>), dimensions |-> None, time_dimensions |-> None,
       limit |-> l] : l \in {None, Some(2)} }

AuthContexts == {"alice", "bob"}
SpanIds      == {None, Some("span")}
ScanOptions  ==
    { [change_user |-> None, max_records |-> None],
      [change_user |-> Some("bob"), max_records |-> Some(2)] }

CubeScanNodes ==
    { CubeScanNode(s, <<Member("a")>>, r, a, o, <<"cube">>, sp) :
        s \in DFSchemas, r \in LogicalRequests, a \in AuthContexts,
        o \in ScanOptions, sp \in SpanIds }

\* The cube scan leaves of the wrapped plans
LeafA == CubeScanNode(<< DFField(None, "Int64") >>, <<Member("a")>>,
                      [measures |-> Some(<<"m">>), dimensions |-> None,
                       time_dimensions |-> None, limit |-> None],
                      "alice", [change_user |-> None, max_records |-> None],
                      <<"cube">>, None)
LeafB == CubeScanNode(<< DFField(None, "Utf8") >>, <<Member("b")>>,
                      [measures |-> None, dimensions |-> Some(<<"d">>),
                       time_dimensions |-> None, limit |-> Some(3)],
                      "bob", [change_user |-> Some("bob"), max_records |-> Some(2)],
                      <<"other">>, Some("span"))

WrappedPlans == { <<>>, <<LeafA>>, <<LeafB, LeafA>> }

CubeScanWrapperNodes ==
    { CubeScanWrapperNode(w, s, mf, sql, r) :
        w \in WrappedPlans, s \in DFSchemas,
        mf \in {None} \cup {Some(m) : m \in MemberFieldLists},
        sql \in {None, Some("SELECT 1")},
        r \in {None} \cup {Some(q) : q \in LogicalRequests} }

OtherNodes == { OtherNode("WrappedSelectNode"), OtherNode("Projection") }

Planners ==
    { [transport |-> t, meta |-> [protocol |-> "postgres", change_user |-> u]] :
        t \in {"http", "test"}, u \in {None, Some("stale")} }

\* The inputs the host passes with the node: node.inputs(), none for a
\* CubeScanNode; plan_extension does not look at those of the other nodes
NodeInputs(node) == IF node.kind = "CubeScanNode" THEN {0} ELSE {0, 1}

Lowerings ==
    { [planner |-> p, node |-> n, inputs |-> i] :
        p \in Planners, n \in CubeScanNodes \cup CubeScanWrapperNodes \cup OtherNodes,
        i \in {0, 1} }

LowerInit ==
    /\ lowering \in {l \in Lowerings : l.inputs \in NodeInputs(l.node)}
    /\ lowered = None
    /\ template = [node |-> [kind |-> "none"]]
    /\ rebuilt = None
    /\ env = [stream_mode |-> FALSE, query_limit |-> 2]
    /\ plan = CHOOSE p \in Plans : TRUE
    /\ partition = 0
    /\ ExecIdle
    /\ ServiceIdle
    /\ SchedIdle
    /\ MatIdle

PlanExtension ==
    /\ lowered = None
    /\ lowered' = Some(plan_extension(lowering.planner, lowering.node,
                                      lowering.inputs, lowering.inputs))
    /\ UNCHANGED <<lowering, template, rebuilt, execVars, schedVars, matVars, serviceVars>>

LowerNext == PlanExtension

LowerSpec == LowerInit /\ [][LowerNext]_vars

-----------------------------------------------------------------------------
(* Specification TemplateSpec: one from_template call on a WrappedSelectNode
   with expressions and inputs drawn from the sets below *)

\* Expr and LogicalPlan values: where the value sat in the original node, and
\* how often a rewrite pass replaced it
Expr(slot, i)    == [slot |-> slot, i |-> i, pass |-> 0]
ChildPlan(name)  == [plan |-> name, pass |-> 0]
Rewritten(v)     == [v EXCEPT !.pass = @ + 1]

\* One element of WrappedSelectNode::joins: (Arc<LogicalPlan>, Expr, JoinType)
Join(child, expr, join_type) == [plan |-> child, expr |-> expr, join_type |-> join_type]

\* WrappedSelectNode::inputs
inputs(self) ==
    <<self.from>> \o [i \in 1..Len(self.joins) |-> self.joins[i].plan]

\* WrappedSelectNode::expressions
expressions(self) ==
    self.projection_expr \o self.group_expr \o self.aggr_expr \o self.window_expr
    \o [i \in 1..Len(self.joins) |-> self.joins[i].expr]
    \o self.filter_expr \o self.having_expr \o self.order_expr

\* `for _ in list.iter() { out.push(exprs_iter.next().unwrap().clone()) }`:
\* the next n expressions after the first `taken`
NextExprs(exprs, taken, n) == SubSeq(exprs, taken + 1, taken + n)

\* Variant: the join expressions are taken after the filter expressions
TemplateExprsJoinsLate(self, exprs) ==
    LET p == Len(self.projection_expr)
        g == p + Len(self.group_expr)
        a == g + Len(self.aggr_expr)
        w == a + Len(self.window_expr)
        f == w + Len(self.filter_expr)
        j == f + Len(self.joins)
        h == j + Len(self.having_expr)
    IN [ projection_expr |-> NextExprs(exprs, 0, Len(self.projection_expr)),
         group_expr      |-> NextExprs(exprs, p, Len(self.group_expr)),
         aggregate_expr  |-> NextExprs(exprs, g, Len(self.aggr_expr)),
         window_expr     |-> NextExprs(exprs, a, Len(self.window_expr)),
         joins_expr      |-> NextExprs(exprs, f, Len(self.joins)),
         filter_expr     |-> NextExprs(exprs, w, Len(self.filter_expr)),
         having_expr     |-> NextExprs(exprs, j, Len(self.having_expr)),
         order_expr      |-> NextExprs(exprs, h, Len(self.order_expr)) ]

\* from_template: the eight loops over exprs_iter
TemplateExprs(self, exprs) ==
    LET p == Len(self.projection_expr)
        g == p + Len(self.group_expr)
        a == g + Len(self.aggr_expr)
        w == a + Len(self.window_expr)
        j == w + Len(self.joins)
        f == j + Len(self.filter_expr)
        h == f + Len(self.having_expr)
    IN [ projection_expr |-> NextExprs(exprs, 0, Len(self.projection_expr)),
         group_expr      |-> NextExprs(exprs, p, Len(self.group_expr)),
         aggregate_expr  |-> NextExprs(exprs, g, Len(self.aggr_expr)),
         window_expr     |-> NextExprs(exprs, a, Len(self.window_expr)),
         joins_expr      |-> NextExprs(exprs, w, Len(self.joins)),
         filter_expr     |-> NextExprs(exprs, j, Len(self.filter_expr)),
         having_expr     |-> NextExprs(exprs, f, Len(self.having_expr)),
         order_expr      |-> NextExprs(exprs, h, Len(self.order_expr)) ]

\* from_template: joins.into_iter().zip(joins_expr).zip(join_types)
TemplateJoins(self, joins_expr, ins) ==
    [i \in 1..Len(self.joins) |->
        Join(ins[i + 1], joins_expr[i], self.joins[i].join_type)]

Rebuilt(node) == [kind |-> "node", node |-> node]
TemplatePanic == [kind |-> "panic"]

\* Variant: limit, offset and alias are copied from the original node
FromTemplateKeepsLimit(self, exprs, ins) ==
    IF Len(ins) # Len(inputs(self)) \/ Len(exprs) # Len(expressions(self))
    THEN TemplatePanic
    ELSE LET e == TemplateExprs(self, exprs) IN
         Rebuilt([ kind            |-> "WrappedSelectNode",
                   schema          |-> self.schema,
                   select_type     |-> self.select_type,
                   projection_expr |-> e.projection_expr,
                   group_expr      |-> e.group_expr,
                   aggr_expr       |-> e.aggregate_expr,
                   window_expr     |-> e.window_expr,
                   from            |-> ins[1],
                   joins           |-> TemplateJoins(self, e.joins_expr, ins),
                   filter_expr     |-> e.filter_expr,
                   having_expr     |-> e.having_expr,
                   limit           |-> self.limit,
                   offset          |-> self.offset,
                   order_expr      |-> e.order_expr,
                   alias           |-> self.alias,
                   ungrouped       |-> self.ungrouped ])

\* WrappedSelectNode::from_template(&self, exprs, inputs): the rebuilt node, or
\* the panic of an assert_eq!
from_template(self, exprs, ins) ==
    IF Len(ins) # Len(inputs(self)) \/ Len(exprs) # Len(expressions(self))
    THEN TemplatePanic
    ELSE LET e == TemplateExprs(self, exprs) IN
         Rebuilt([ kind            |-> "WrappedSelectNode",
                   schema          |-> self.schema,
                   select_type     |-> self.select_type,
                   projection_expr |-> e.projection_expr,
                   group_expr      |-> e.group_expr,
                   aggr_expr       |-> e.aggregate_expr,
                   window_expr     |-> e.window_expr,
                   from            |-> ins[1],
                   joins           |-> TemplateJoins(self, e.joins_expr, ins),
                   filter_expr     |-> e.filter_expr,
                   having_expr     |-> e.having_expr,
                   limit           |-> None,
                   offset          |-> None,
                   order_expr      |-> e.order_expr,
                   alias           |-> None,
                   ungrouped       |-> self.ungrouped ])

\* The expression lists of a node
ExprSlots == {"projection", "group", "aggr", "window", "filter", "having", "order"}

\* How many expressions each list holds: every mix of empty and one-element
\* lists, and each list grown up to MaxExprs beside one-element lists
Shapes ==
    [ExprSlots -> 0..1]
    \cup { [s \in ExprSlots |-> IF s = k THEN n ELSE 1] : k \in ExprSlots, n \in 2..MaxExprs }

ExprList(slot, n) == [i \in 1..n |-> Expr(slot, i)]

JoinTypes == <<"Inner", "Left">>

\* n joined children; the join types alternate
JoinList(n) ==
    [i \in 1..n |-> Join(ChildPlan(<<"join", i>>), Expr("join", i), JoinTypes[1 + (i % 2)])]

\* schema, select_type and the ungrouped flag
SelectVariants ==
    { [schema |-> << DFField(None, "Int64") >>, select_type |-> "Projection",
       ungrouped |-> FALSE],
      [schema |-> << DFField(Some("t"), "Utf8"), DFField(Some("t"), "Boolean") >>,
       select_type |-> "Aggregate", ungrouped |-> TRUE] }

\* limit, offset and alias
Tails ==
    { [limit |-> None, offset |-> None, alias |-> None],
      [limit |-> Some(10), offset |-> Some(5), alias |-> Some("q")],
      [limit |-> Some(10), offset |-> None, alias |-> Some("q")] }

WrappedSelectNodes ==
    { [ kind            |-> "WrappedSelectNode",
        schema          |-> v.schema,
        select_type     |-> v.select_type,
        projection_expr |-> ExprList("projection", sh["projection"]),
        group_expr      |-> ExprList("group", sh["group"]),
        aggr_expr       |-> ExprList("aggr", sh["aggr"]),
        window_expr     |-> ExprList("window", sh["window"]),
        from            |-> ChildPlan(<<"from", 0>>),
        joins           |-> JoinList(n),
        filter_expr     |-> ExprList("filter", sh["filter"]),
        having_expr     |-> ExprList("having", sh["having"]),
        limit           |-> t.limit,
        offset          |-> t.offset,
        order_expr      |-> ExprList("order", sh["order"]),
        alias           |-> t.alias,
        ungrouped       |-> v.ungrouped ] :
      v \in SelectVariants, sh \in Shapes, n \in 0..MaxJoins, t \in Tails }

MapSeq(seq, Op(_)) == [i \in DOMAIN seq |-> Op(seq[i])]

\* CubeScanNode::inputs(&self) and CubeScanNode::expressions(&self): a scan is
\* a leaf without expressions
CubeScanNode_inputs(self) == <<>>

CubeScanNode_expressions(self) == <<>>

CubeScanNodeFromTemplateAnyArity(self, exprs, ins) ==
    Rebuilt(self)

\* CubeScanNode::from_template(&self, exprs, inputs): a clone of the seven
\* fields, or the panic of an assert_eq!
CubeScanNode_from_template(self, exprs, ins) ==
    IF Len(ins) # 0 \/ Len(exprs) # 0
    THEN TemplatePanic
    ELSE Rebuilt(CubeScanNode(self.schema, self.member_fields, self.request,
                              self.auth_context, self.options, self.used_cubes,
                              self.span_id))

\* The methods of the UserDefinedLogicalNode trait object
NodeChildren(node) ==
    IF node.kind = "CubeScanNode" THEN CubeScanNode_inputs(node) ELSE inputs(node)

NodeExpressions(node) ==
    IF node.kind = "CubeScanNode" THEN CubeScanNode_expressions(node)
    ELSE expressions(node)

NodeFromTemplate(node, exprs, ins) ==
    IF node.kind = "CubeScanNode" THEN CubeScanNode_from_template(node, exprs, ins)
    ELSE from_template(node, exprs, ins)

\* What a caller passes to from_template: the node's own expressions and
\* inputs, their rewritten versions, or sequences of another length
TemplateArgs(node) ==
    LET e == NodeExpressions(node)
        c == NodeChildren(node) IN
    { [how |-> "same", exprs |-> e, inputs |-> c],
      [how |-> "rewritten", exprs |-> MapSeq(e, Rewritten),
       inputs |-> MapSeq(c, Rewritten)],
      [how |-> "extra_expr", exprs |-> Append(e, Expr("extra", 1)), inputs |-> c],
      [how |-> "extra_input", exprs |-> e, inputs |-> Append(c, ChildPlan("extra"))] }
    \cup (IF Len(c) > 0
          THEN { [how |-> "no_inputs", exprs |-> e, inputs |-> <<>>] } ELSE {})
    \cup (IF Len(e) > 0
          THEN { [how |-> "missing_expr", exprs |-> SubSeq(e, 1, Len(e) - 1),
                  inputs |-> c] } ELSE {})

TemplateInit ==
    /\ \E n \in WrappedSelectNodes \cup CubeScanNodes : \E a \in TemplateArgs(n) :
          template = [node |-> n, how |-> a.how, exprs |-> a.exprs, inputs |-> a.inputs]
    /\ rebuilt = None
    /\ lowering = [node |-> [kind |-> "none"]]
    /\ lowered = None
    /\ env = [stream_mode |-> FALSE, query_limit |-> 2]
    /\ plan = CHOOSE p \in Plans : TRUE
    /\ partition = 0
    /\ ExecIdle
    /\ ServiceIdle
    /\ SchedIdle
    /\ MatIdle

FromTemplate ==
    /\ rebuilt = None
    /\ rebuilt' = Some(NodeFromTemplate(template.node, template.exprs, template.inputs))
    /\ UNCHANGED <<template, lowering, lowered, execVars, schedVars, matVars, serviceVars>>

TemplateNext == FromTemplate

TemplateSpec == TemplateInit /\ [][TemplateNext]_vars

-----------------------------------------------------------------------------
(* Specification ConnSpec: the prepared statements of one MySqlConnection
   (rust/cubesql/cubesql/src/sql/mysql/service.rs). The shim's handlers take
   &mut self, so the calls on one connection are sequential. A HashMap is a
   function on the set of its keys. *)

\* PreparedStatements::new()
NewPreparedStatements == [id |-> 1, statements |-> <<>>]

MapInsert(m, k, v) == [i \in DOMAIN m \cup {k} |-> IF i = k THEN v ELSE m[i]]
MapRemove(m, k)    == [i \in DOMAIN m \ {k} |-> m[i]]
MapLen(m)          == Cardinality(DOMAIN m)

\* The texts a client sends with COM_STMT_PREPARE
SqlInputs == {"SELECT 1", "SELECT ?", "SELEC"}

\* parse_sql_to_statement(input, MySQL, ..): the ast::Statement, or a parse error
parse_sql_to_statement(input) ==
    IF input \in {"SELECT 1", "SELECT ?"}
    THEN [ok |-> TRUE, statement |-> [sql |-> input, bound |-> <<>>]]
    ELSE [ok |-> FALSE]

\* The writer calls of a handler
ReplyError(kind, message) == [w |-> "error", kind |-> kind, message |-> message]
ReplyStatement(id)        == [w |-> "reply", id |-> id]
ReplyResults(query)       == [w |-> "results", query |-> query]

MaxAllocationMessage(actual, max) ==
    <<"Unable to allocate new prepared statement, max allocation reached", actual, max>>
UnknownStatementMessage == <<"Unknown statement">>

\* Result<(), io::Error> of a handler whose last writer call returned `io`
Returned(io) == IF io THEN "ok" ELSE "io_error"

\* What a handler did: the PreparedStatements after it, its writer call (if
\* any), the query it handed to handle_query (if any) and how it returned
Handled(state, reply, query, ret) ==
    [state |-> state, reply |-> reply, query |-> query, ret |-> ret]

\* Variant: the limit is compared with > instead of >=
OnPrepareAllowsOneMore(state, max, input, found, io) ==
    LET parsed == parse_sql_to_statement(input) IN
    IF ~parsed.ok
    THEN Handled(state, Some(ReplyError("ER_PARSE_ERROR", <<"parse">>)), None, Returned(io))
    ELSE IF ~found
    THEN Handled(state, None, None, "io_error")
    ELSE IF MapLen(state.statements) > max
    THEN Handled(state,
                 Some(ReplyError("ER_INTERNAL_ERROR",
                                 MaxAllocationMessage(MapLen(state.statements), max))),
                 None, Returned(io))
    ELSE Handled([id |-> state.id + 1,
                  statements |-> MapInsert(state.statements, state.id + 1, parsed.statement)],
                 Some(ReplyStatement(state.id + 1)), None, Returned(io))

\* MySqlConnection::on_prepare. found: MySQLStatementParamsFinder::find
\* returned Ok; io: the writer call returned Ok
on_prepare(state, max, input, found, io) ==
    LET parsed == parse_sql_to_statement(input) IN
    IF ~parsed.ok
    THEN Handled(state, Some(ReplyError("ER_PARSE_ERROR", <<"parse">>)), None, Returned(io))
    ELSE IF ~found
    THEN Handled(state, None, None, "io_error")
    ELSE IF MapLen(state.statements) >= max
    THEN Handled(state,
                 Some(ReplyError("ER_INTERNAL_ERROR",
                                 MaxAllocationMessage(MapLen(state.statements), max))),
                 None, Returned(io))
    ELSE Handled([id |-> state.id + 1,
                  statements |-> MapInsert(state.statements, state.id + 1, parsed.statement)],
                 Some(ReplyStatement(state.id + 1)), None, Returned(io))

\* The column types of the parameters a client sends with COM_STMT_EXECUTE
SupportedColTypes ==
    {"MYSQL_TYPE_TINY", "MYSQL_TYPE_SHORT", "MYSQL_TYPE_LONG", "MYSQL_TYPE_LONGLONG",
     "MYSQL_TYPE_FLOAT", "MYSQL_TYPE_DOUBLE", "MYSQL_TYPE_VAR_STRING", "MYSQL_TYPE_STRING"}

Param(coltype, value) == [coltype |-> coltype, value |-> value]

\* The match on p.coltype of on_execute
ToBindValue(p) ==
    CASE p.coltype = "MYSQL_TYPE_TINY" -> [t |-> "Bool", v |-> (p.value = 0)]
      [] p.coltype \in {"MYSQL_TYPE_SHORT", "MYSQL_TYPE_LONG", "MYSQL_TYPE_LONGLONG"}
           -> [t |-> "Int64", v |-> p.value]
      [] p.coltype \in {"MYSQL_TYPE_FLOAT", "MYSQL_TYPE_DOUBLE"}
           -> [t |-> "Float64", v |-> p.value]
      [] OTHER -> [t |-> "String", v |-> p.value]

\* MysqlStatementParamsBinder::bind(&mut statement)
Bind(statement, values) == [statement EXCEPT !.bound = values]

\* handle_query(statement.to_string(), results): the query is executed and the
\* results writer is driven; `ended` is how that went
handle_query(state, query, ended) ==
    Handled(state, Some(ReplyResults(query)), Some(query), ended)

\* Variant: the stored statement is bound, not a clone of it
OnExecuteBindsInPlace(state, id, params, bound, ended) ==
    IF id \notin DOMAIN state.statements
    THEN Handled(state, Some(ReplyError("ER_INTERNAL_ERROR", UnknownStatementMessage)),
                 None, Returned(ended = "ok"))
    ELSE IF \E i \in DOMAIN params : params[i].coltype \notin SupportedColTypes
    THEN Handled(state, None, None, "panic")
    ELSE IF ~bound
    THEN Handled(state, None, None, "io_error")
    ELSE LET values == [i \in DOMAIN params |-> ToBindValue(params[i])]
             statement == Bind(state.statements[id], values) IN
         handle_query([state EXCEPT !.statements[id] = statement], statement, ended)

\* MySqlConnection::on_execute. bound: binder.bind returned Ok; ended: how
\* the writer call or handle_query ended ("ok", "io_error" or "panic")
on_execute(state, id, params, bound, ended) ==
    IF id \notin DOMAIN state.statements
    THEN Handled(state, Some(ReplyError("ER_INTERNAL_ERROR", UnknownStatementMessage)),
                 None, Returned(ended = "ok"))
    ELSE IF \E i \in DOMAIN params : params[i].coltype \notin SupportedColTypes
    THEN Handled(state, None, None, "panic")
    ELSE IF ~bound
    THEN Handled(state, None, None, "io_error")
    ELSE LET values == [i \in DOMAIN params |-> ToBindValue(params[i])]
             statement == Bind(state.statements[id], values) IN
         handle_query(state, statement, ended)

\* Variant: closing the newest statement gives its id back
OnCloseReleasesId(state, id) ==
    Handled([id |-> IF id = state.id /\ id \in DOMAIN state.statements
                    THEN state.id - 1 ELSE state.id,
             statements |-> MapRemove(state.statements, id)],
            None, None, "ok")

\* MySqlConnection::on_close
on_close(state, id) ==
    Handled([state EXCEPT !.statements = MapRemove(@, id)], None, None, "ok")

\* The ids and parameter lists a client may send
StatementIds == 1..(MaxPrepares + 2)
ParamLists ==
    { <<>>,
      << Param("MYSQL_TYPE_TINY", 0) >>,
      << Param("MYSQL_TYPE_LONG", 7) >>,
      << Param("MYSQL_TYPE_BLOB", 0) >> }

NoCall == [op |-> "none"]

ConnInit ==
    /\ \E max \in 0..MaxStatements :
          conn = [max |-> max, state |-> NewPreparedStatements, alive |-> TRUE,
                  issued |-> <<>>, last |-> NoCall]
    /\ server = [pc |-> "none"]
    /\ env = [stream_mode |-> FALSE, query_limit |-> 2]
    /\ plan = CHOOSE p \in Plans : TRUE
    /\ partition = 0
    /\ ExecIdle
    /\ SchedIdle
    /\ MatIdle
    /\ PlannerIdle

\* The connection after a handler call: a handler that returns an io::Error or
\* panics ends AsyncMysqlIntermediary::run_on
AfterCall(op, arg, h) ==
    [conn EXCEPT !.state  = h.state,
                 !.alive  = (h.ret = "ok"),
                 !.issued = IF h.ret = "ok" /\ h.reply # None /\ Unwrap(h.reply).w = "reply"
                            THEN Append(@, Unwrap(h.reply).id) ELSE @,
                 !.last   = [op |-> op, arg |-> arg, before |-> conn.state,
                             reply |-> h.reply, query |-> h.query, ret |-> h.ret]]

\* COM_STMT_PREPARE
OnPrepare ==
    /\ conn.alive
    /\ conn.state.id <= MaxPrepares
    /\ \E input \in SqlInputs, found \in BOOLEAN, io \in BOOLEAN :
          conn' = AfterCall("on_prepare", input,
                            on_prepare(conn.state, conn.max, input, found, io))
    /\ UNCHANGED <<server, execVars, schedVars, matVars, plannerVars>>

\* COM_STMT_EXECUTE
OnExecute ==
    /\ conn.alive
    /\ \E id \in StatementIds, params \in ParamLists, bound \in BOOLEAN,
          ended \in {"ok", "io_error", "panic"} :
          /\ id \notin DOMAIN conn.state.statements => ended # "panic"
          /\ conn' = AfterCall("on_execute", id,
                               on_execute(conn.state, id, params, bound, ended))
    /\ UNCHANGED <<server, execVars, schedVars, matVars, plannerVars>>

\* COM_STMT_CLOSE
OnClose ==
    /\ conn.alive
    /\ \E id \in StatementIds :
          conn' = AfterCall("on_close", id, on_close(conn.state, id))
    /\ UNCHANGED <<server, execVars, schedVars, matVars, plannerVars>>

ConnNext == OnPrepare \/ OnExecute \/ OnClose

ConnSpec == ConnInit /\ [][ConnNext]_vars

-----------------------------------------------------------------------------
(* Specification ServerSpec: MySqlServer::processing_loop, stop_processing and
   the two tasks the loop spawns per accepted connection
   (rust/cubesql/cubesql/src/sql/mysql/service.rs). The watch channel is its
   value and the `changed` mark of the loop's receiver; the session manager is
   the map of its sessions and its connection id counter. *)

\* watch::channel(false) in MySqlServer::new
NewWatch == [value |-> FALSE, changed |-> FALSE]

\* close_socket_tx.send(true)
WatchSend(w, v) == [value |-> v, changed |-> TRUE]

\* Variant: the loop returns only when the sender is gone
StopObservedOnClosedOnly(w) == FALSE

\* `res.is_err() || *stop_receiver.borrow()` once changed() is ready; the
\* sender lives in the same MySqlServer, so res is Ok
StopObserved(w) == w.value

\* A connection the loop has not accepted
NoTask == [handler |-> "none", dropper |-> "none", drops |-> 0]

\* The two tokio::spawn calls: the dropper waits on tx.closed(), the handler
\* holds rx
Spawned == [handler |-> "running", dropper |-> "waiting", drops |-> 0]

\* peer_addr() of the accepted socket, with the fallback of the Err arm
PeerOf(peer_ok, id) ==
    IF peer_ok THEN [client_addr |-> "10.0.0.1", client_port |-> 5000 + id]
    ELSE [client_addr |-> "127.0.0.1", client_port |-> 0]

\* SessionManager::create_session(MySQL, client_addr, client_port): a session
\* with the next connection id, registered in the manager
create_session(s, peer) ==
    [s EXCEPT !.next_id = @ + 1,
              !.sessions = MapInsert(@, s.next_id + 1, peer)]

\* SessionManager::drop_session(connection_id)
drop_session(s, id) == [s EXCEPT !.sessions = MapRemove(@, id)]

\* MySqlServer::new, before processing_loop is called, with a session manager
\* that holds no session
ServerInit ==
    /\ server = [pc |-> "idle", stop |-> NewWatch, accept_errors |-> 0,
                 socket |-> None, next_id |-> 0, sessions |-> <<>>,
                 conns |-> [id \in 1..MaxConns |-> NoTask], observed |-> None,
                 stopped_at |-> "never"]
    /\ conn = [alive |-> FALSE]
    /\ env = [stream_mode |-> FALSE, query_limit |-> 2]
    /\ plan = CHOOSE p \in Plans : TRUE
    /\ partition = 0
    /\ ExecIdle
    /\ SchedIdle
    /\ MatIdle
    /\ PlannerIdle

ServerUnchanged == UNCHANGED <<conn, execVars, schedVars, matVars, plannerVars>>

\* TcpListener::bind(address).await?
BindListener ==
    /\ server.pc = "idle"
    /\ \E bound \in BOOLEAN :
          server' = [server EXCEPT !.pc = IF bound THEN "select" ELSE "returned_err"]
    /\ ServerUnchanged

\* MySqlServer::stop_processing
StopProcessing ==
    /\ ~server.stop.value
    /\ server' = [server EXCEPT !.stop = WatchSend(@, TRUE),
                                 !.stopped_at = server.pc]
    /\ ServerUnchanged

\* select!: stop_receiver.changed() is ready
SelectStop ==
    /\ server.pc = "select"
    /\ server.stop.changed
    /\ server' = [server EXCEPT
                    !.stop.changed = FALSE,
                    !.pc = IF StopObserved(server.stop) THEN "returned_ok" ELSE "select",
                    !.observed = IF StopObserved(server.stop)
                                 THEN Some(server.next_id) ELSE @]
    /\ ServerUnchanged

\* select!: listener.accept() is ready with a socket
AcceptOk ==
    /\ server.pc = "select"
    /\ server.next_id < MaxConns
    /\ \E peer_ok \in BOOLEAN :
          server' = [server EXCEPT !.pc = "setup",
                                   !.socket = Some(PeerOf(peer_ok, server.next_id + 1))]
    /\ ServerUnchanged

\* select!: listener.accept() is ready with an error: `continue`
AcceptErr ==
    /\ server.pc = "select"
    /\ server.accept_errors < MaxAcceptErrors
    /\ server' = [server EXCEPT !.accept_errors = @ + 1]
    /\ ServerUnchanged

\* create_session(..).await, then the two tokio::spawn calls
SetUp ==
    /\ server.pc = "setup"
    /\ server' = [create_session(server, Unwrap(server.socket)) EXCEPT
                    !.pc = "select",
                    !.socket = None,
                    !.conns[server.next_id + 1] = Spawned]
    /\ ServerUnchanged

\* The handler task ends: run_on returned Ok or Err (rx is dropped by
\* std::mem::drop), or the task panicked (rx is dropped with the future)
HandlerEnds(id) ==
    /\ server.conns[id].handler = "running"
    /\ \E how \in {"ok", "err", "panic"} :
          server' = [server EXCEPT !.conns[id].handler = how]
    /\ ServerUnchanged

\* Variant: the dropper task does not wait for rx to be dropped
ClosedAnyTime(task) == task.dropper = "waiting"

\* tx.closed() of the dropper task is ready: rx has been dropped
Closed(task) == task.dropper = "waiting" /\ task.handler \notin {"none", "running"}

\* The dropper task after tx.closed().await: drop_session(connection_id)
DropSession(id) ==
    /\ Closed(server.conns[id])
    /\ server' = [drop_session(server, id) EXCEPT
                    !.conns[id].dropper = "done",
                    !.conns[id].drops = @ + 1]
    /\ ServerUnchanged

ServerNext ==
    \/ BindListener
    \/ StopProcessing
    \/ SelectStop
    \/ AcceptOk
    \/ AcceptErr
    \/ SetUp
    \/ \E id \in 1..MaxConns : HandlerEnds(id)
    \/ \E id \in 1..MaxConns : DropSession(id)

ServerSpec == ServerInit /\ [][ServerNext]_vars

\* The loop and the spawned tasks are tasks of the runtime and are polled when
\* they are ready; select! polls its branches in random order, so a stop
\* branch that is ready again and again is taken
ServerFairness ==
    /\ WF_vars(BindListener)
    /\ WF_vars(SetUp)
    /\ SF_vars(SelectStop)
    /\ \A id \in 1..MaxConns : WF_vars(DropSession(id))

ServerLiveSpec == ServerSpec /\ ServerFairness

-----------------------------------------------------------------------------
(* Specification SchedSpec: NTasks scan executions, each the consumer task of
   one CubeScanStreamRouter, polled by the worker threads of one runtime.
   A worker is "idle", parked on the runtime's I/O driver ("park"), polling a
   task ("run") or blocked in JoinHandle::join() inside poll_next ("join"). *)

SchedTasks   == 1..NTasks
SchedWorkers == DOMAIN workers

Worker(st, task) == [st |-> st, task |-> task]

\* The plan all executions of SchedSpec run: streaming mode, no limit
SchedPlan == CHOOSE p \in Plans : p.request.limit = None /\ ~no_members_query(p.request)

SchedInit ==
    /\ env = [stream_mode |-> TRUE, query_limit |-> 2]
    /\ plan = SchedPlan
    /\ partition = 0
    /\ ExecIdle
    /\ ServiceIdle
    /\ \E n \in 1..NWorkers : workers = [w \in 1..n |-> Worker("idle", 0)]
    /\ tasks = [t \in SchedTasks |-> [st |-> "queued", streaming |-> TRUE, polls |-> 0]]
    /\ threads = [t \in SchedTasks |-> "none"]
    /\ driver = 0
    /\ MatIdle
    /\ PlannerIdle

\* A worker that is not polling takes a runnable task
Schedule ==
    \E w \in SchedWorkers, t \in SchedTasks :
        /\ workers[w].st \in {"idle", "park"}
        /\ tasks[t].st = "queued"
        /\ workers' = [workers EXCEPT ![w] = Worker("run", t)]
        /\ tasks' = [tasks EXCEPT ![t].st = "running"]
        /\ driver' = IF driver = w THEN 0 ELSE driver
        /\ UNCHANGED <<threads, execVars, matVars, plannerVars, serviceVars>>

\* A worker with nothing to poll parks on the I/O driver and turns it
Park ==
    \E w \in SchedWorkers :
        /\ workers[w].st = "idle"
        /\ driver = 0
        /\ workers' = [workers EXCEPT ![w] = Worker("park", 0)]
        /\ driver' = w
        /\ UNCHANGED <<tasks, threads, execVars, matVars, plannerVars, serviceVars>>

\* poll_next in Streaming state, `return next`: a batch, Pending or the end
PollForward ==
    \E w \in SchedWorkers, out \in {"batch", "pending", "end"} :
        LET t == workers[w].task IN
        /\ workers[w].st = "run"
        /\ tasks[t].streaming
        /\ tasks[t].polls < MaxPolls
        /\ tasks' = [tasks EXCEPT ![t].st = CASE out = "batch"   -> "queued"
                                              [] out = "pending" -> "pending"
                                              [] out = "end"     -> "done",
                                  ![t].polls = @ + 1]
        /\ workers' = [workers EXCEPT ![w] = Worker("idle", 0)]
        /\ UNCHANGED <<threads, driver, execVars, matVars, plannerVars, serviceVars>>

\* poll_next in Streaming state on the not-implemented error: main_stream = None
\* and load_to_stream_sync spawns the thread and waits in join(). The spawned
\* thread's block_on(load_data(..)) awaits transport.load, which either needs
\* the runtime's I/O driver ("io") or completes on the thread itself ("ready").
PollDowngrade ==
    \E w \in SchedWorkers, needs \in {"io", "ready"} :
        LET t == workers[w].task IN
        /\ workers[w].st = "run"
        /\ tasks[t].streaming
        /\ tasks' = [tasks EXCEPT ![t].st = "fetch", ![t].streaming = FALSE]
        /\ threads' = [threads EXCEPT ![t] = needs]
        /\ workers' = [workers EXCEPT ![w] = Worker("join", t)]
        /\ UNCHANGED <<driver, execVars, matVars, plannerVars, serviceVars>>

\* The I/O driver, turned by the parked worker, completes transport.load
IoComplete ==
    \E t \in SchedTasks :
        /\ threads[t] = "io"
        /\ driver # 0
        /\ threads' = [threads EXCEPT ![t] = "ready"]
        /\ UNCHANGED <<workers, tasks, driver, execVars, matVars, plannerVars, serviceVars>>

\* The spawned thread's block_on returns and the thread exits
ThreadExit ==
    \E t \in SchedTasks :
        /\ threads[t] = "ready"
        /\ threads' = [threads EXCEPT ![t] = "finished"]
        /\ UNCHANGED <<workers, tasks, driver, execVars, matVars, plannerVars, serviceVars>>

\* join() returns: load_to_stream_sync stores the batch and poll_next yields it
JoinReturns ==
    \E w \in SchedWorkers :
        LET t == workers[w].task IN
        /\ workers[w].st = "join"
        /\ threads[t] = "finished"
        /\ threads' = [threads EXCEPT ![t] = "none"]
        /\ tasks' = [tasks EXCEPT ![t].st = "queued", ![t].polls = @ + 1]
        /\ workers' = [workers EXCEPT ![w] = Worker("idle", 0)]
        /\ UNCHANGED <<driver, execVars, matVars, plannerVars, serviceVars>>

\* poll_next in OneShot state: end of stream
PollOneShot ==
    \E w \in SchedWorkers :
        LET t == workers[w].task IN
        /\ workers[w].st = "run"
        /\ ~tasks[t].streaming
        /\ tasks' = [tasks EXCEPT ![t].st = "done"]
        /\ workers' = [workers EXCEPT ![w] = Worker("idle", 0)]
        /\ UNCHANGED <<threads, driver, execVars, matVars, plannerVars, serviceVars>>

\* The channel of a task that returned Pending gets an element and wakes the
\* task; the element arrives through the I/O driver
ChannelWake ==
    \E t \in SchedTasks :
        /\ tasks[t].st = "pending"
        /\ driver # 0
        /\ tasks' = [tasks EXCEPT ![t].st = "queued"]
        /\ UNCHANGED <<workers, threads, driver, execVars, matVars, plannerVars, serviceVars>>

SchedNext ==
    \/ Schedule \/ Park \/ PollForward \/ PollDowngrade \/ IoComplete
    \/ ThreadExit \/ JoinReturns \/ PollOneShot \/ ChannelWake

SchedSpec == SchedInit /\ [][SchedNext]_vars

-----------------------------------------------------------------------------
(* Properties of specification Spec *)

Executed     == Unwrap(execResult)
PollIndexes  == 1..Len(trace)
ReplyOf(e)   == IF e.reply = None THEN NoReply ELSE Unwrap(e.reply)
IsBatch(e)   == e.res = "item" /\ Unwrap(e.item).kind = "batch"
PlanLimit    == plan.request.limit

\* The batch (or failure) of a direct one-shot execution of the plan's request
\* against the transport reply `reply`
DirectOneShot(reply) == OneShotFetch(NewOneShotStream(plan, env.query_limit), reply)

\* C1: a poll in Streaming state that receives a not-implemented error drops the
\* channel and fetches one-shot; where a direct one-shot execution (load_data,
\* then transform_response) of the same request gives a batch, the poll yields
\* exactly that batch, and the next poll ends the stream.
C1_DowngradeDeliversOneShotBatch ==
    \A i \in PollIndexes :
        (trace[i].streaming /\ IsSome(trace[i].elem) /\ IsNotImplemented(Unwrap(trace[i].elem)))
        => /\ trace[i].fetched
           /\ i = Len(trace) => main_stream = None
           /\ i < Len(trace) => ~trace[i + 1].streaming
           /\ DirectOneShot(ReplyOf(trace[i])).kind = "ok"
              => /\ trace[i].res = "item"
                 /\ trace[i].item = Some(BatchItem(DirectOneShot(ReplyOf(trace[i])).batch))
                 /\ i < Len(trace) => trace[i + 1].res = "end"

C1_Witness ==
    \E i \in PollIndexes :
        /\ trace[i].fetched
        /\ IsBatch(trace[i])
        /\ IsSome(trace[i].reply)
        /\ NumRows(Unwrap(trace[i].item).batch) = 2
        /\ i < Len(trace)
        /\ trace[i + 1].res = "end"

\* C2: the router's only transition is Streaming -> OneShot: once main_stream is
\* None it stays None, the channel is not polled again, load_stream is called at
\* most once and only by execute(), and the downgrade fetch runs at most once.
C2_OneWayDowngrade ==
    /\ \A i \in PollIndexes :
          ~trace[i].streaming
          => /\ main_stream = None
             /\ \A j \in PollIndexes : j >= i => (~trace[j].streaming /\ ~trace[j].polled
                                                  /\ ~trace[j].fetched)
    /\ \A i \in PollIndexes :
          trace[i].fetched
          => /\ main_stream = None
             /\ \A j \in PollIndexes : j > i => (~trace[j].streaming /\ ~trace[j].polled
                                                 /\ ~trace[j].fetched)
    /\ Cardinality({i \in PollIndexes : trace[i].fetched}) <= 1
    /\ \A k \in 1..Len(calls) : calls[k].op = "load_stream" => k = 1
    /\ Cardinality({k \in 1..Len(calls) : calls[k].op = "load"}) <= 1

C2_Witness ==
    \E i \in PollIndexes :
        /\ trace[i].fetched
        /\ i + 2 <= Len(trace)
        /\ chan.queue # <<>>
        /\ calls[1].op = "load_stream"

\* C4: execute() selects streaming mode (a router with a live channel) iff the
\* toggle is on and the plan's limit is unset or strictly above the configured
\* default; otherwise, also at limit = default, it selects one-shot mode.
C4_StreamingSelectedIff ==
    IsSome(execResult)
    => LET wanted == /\ env.stream_mode
                     /\ \/ PlanLimit = None
                        \/ \E l \in PlanLimit : l > env.query_limit
       IN /\ Executed.stream_mode <=> wanted
          /\ (pc = "stream" /\ trace = <<>>) => (IsSome(main_stream) <=> wanted)
          /\ (\E k \in 1..Len(calls) : calls[k].op = "load_stream") <=> wanted

C4_Witness ==
    /\ env.stream_mode
    /\ PlanLimit = Some(env.query_limit)
    /\ pc = "stream"
    /\ trace = <<>>
    /\ main_stream = None
    /\ IsSome(one_shot_stream.data)

\* The clamped limit the spec describes
ExpectedClamp ==
    IF PlanLimit = None \/ (\E l \in PlanLimit : l > env.query_limit)
    THEN Some(env.query_limit) ELSE PlanLimit

\* C5 as stated: every request handed to the transport, by load_stream as well as
\* by load, carries the clamped limit.
C5_AllCallsClamped ==
    \A k \in 1..Len(calls) : calls[k].request.limit = ExpectedClamp

\* C5 as amended: every request handed to transport.load (one-shot mode and the
\* downgrade fetch) carries the clamped limit, never unset and never above the
\* default; the request handed to transport.load_stream carries the plan's own
\* limit, which in streaming mode is unset or above the default.
C5_LoadCallsClamped ==
    \A k \in 1..Len(calls) :
        /\ calls[k].op = "load"
           => /\ calls[k].request.limit = ExpectedClamp
              /\ \E l \in calls[k].request.limit : l <= env.query_limit
        /\ calls[k].op = "load_stream"
           => /\ calls[k].request.limit = PlanLimit
              /\ \/ PlanLimit = None
                 \/ \E l \in PlanLimit : l > env.query_limit

C5_Witness ==
    /\ Len(calls) = 2
    /\ calls[1].op = "load_stream"
    /\ calls[1].request.limit = Some(3)
    /\ calls[2].op = "load"
    /\ calls[2].request.limit = Some(2)

\* Rows of the result a transport reply carries, if it carries one
HasResult(reply) == reply.kind = "response" /\ Len(reply.results) > 0
ReplyRows(reply) == Len(reply.results[Len(reply.results)])
GuardTrips(reply) ==
    /\ HasResult(reply)
    /\ \E m \in plan.options.max_records : ReplyRows(reply) >= m
RowLimitError == DFArrowError(ComputeError(MaxRecordsMessage))

\* What load_data returns for the plan's (clamped) request on this reply
FetchOf(reply) == load_data(ClampedRequest(plan.request, env.query_limit), plan.options, reply)

C6_WitnessBelow ==
    /\ IsSome(execResult)
    /\ IsSome(Executed.reply)
    /\ plan.options.max_records = Some(2)
    /\ HasResult(ReplyOf(Executed))
    /\ ReplyRows(ReplyOf(Executed)) = 1
    /\ Executed.ret = "ok"

\* Every cell of every Member-bound column of the batch is null
MemberCellsNull(batch) ==
    \A c \in 1..Len(batch.schema) :
        plan.member_fields[c].mf = "Member"
        => \A r \in 1..Len(batch.columns[c]) : batch.columns[c][r] = NullCell

\* C7 as stated: a no-members request with explicit limit L, executed one-shot,
\* makes no transport call and yields one batch of exactly L rows whose
\* Member-bound cells are all null, for any schema of supported types.
C7_DegenerateYieldsNullRows ==
    (/\ IsSome(execResult)
     /\ ~Executed.stream_mode
     /\ no_members_query(plan.request)
     /\ \E l \in PlanLimit : l <= env.query_limit)
    => /\ calls = <<>>
       /\ Executed.ret = "ok"
       /\ trace = <<>>
          => /\ IsSome(one_shot_stream.data)
             /\ NumRows(Unwrap(one_shot_stream.data)) = Unwrap(PlanLimit)
             /\ MemberCellsNull(Unwrap(one_shot_stream.data))

\* C8 as stated: a no-members request without a limit, executed one-shot through
\* execute(), yields exactly one row.
C8_DegenerateDefaultsToOneRow ==
    (/\ IsSome(execResult)
     /\ ~Executed.stream_mode
     /\ no_members_query(plan.request)
     /\ PlanLimit = None
     /\ Executed.ret = "ok"
     /\ trace = <<>>)
    => NumRows(Unwrap(one_shot_stream.data)) = 1

\* C9: in OneShot state (no channel from the start, or after a downgrade) the
\* stream yields at most one batch: the stored batch is handed out once, every
\* later poll returns end-of-stream, and no poll in that state fetches.
C9_OneShotYieldsAtMostOneBatch ==
    /\ \A j \in PollIndexes :
          ~trace[j].streaming
          => /\ ~trace[j].fetched
             /\ ~trace[j].polled
             /\ trace[j].reply = None
             /\ trace[j].res \in {"item", "end"}
             /\ trace[j].res = "item" <=> (j = 1 /\ IsBatch(trace[j]))
    /\ Cardinality({j \in PollIndexes :
                      (~trace[j].streaming \/ trace[j].fetched) /\ IsBatch(trace[j])}) <= 1
    /\ (pc = "stream" /\ main_stream = None /\ trace # <<>>) => one_shot_stream.data = None
    /\ Cardinality({k \in 1..Len(calls) : calls[k].op = "load"}) <= 1

C9_Witness ==
    /\ calls # <<>>
    /\ Len(trace) = 3
    /\ ~trace[1].streaming
    /\ IsBatch(trace[1])
    /\ trace[2].res = "end"
    /\ trace[3].res = "end"

\* What a channel element is forwarded as: batches as batches, errors as
\* ComputeError items carrying the error's text
ForwardedAs(elem) ==
    IF elem.e = "chunk" THEN BatchItem([chunk |-> elem.id])
    ELSE ErrItem([variant |-> "ArrowError::ComputeError",
                  msg |-> <<elem.err.cause, ":">> \o elem.err.message])

\* The polls that stayed in Streaming state (no downgrade)
StreamingPolls == {i \in PollIndexes : trace[i].streaming /\ ~trace[i].fetched}

\* The elements the router took off the channel, in poll order
ReceivedCount(i) == Cardinality({j \in 1..i : IsSome(trace[j].elem)})

\* In Streaming state every batch and every error other than not-implemented is
\* forwarded unchanged and in channel order, and the router stays in Streaming.
ForwardsInOrder ==
    \A i \in StreamingPolls :
        /\ i = Len(trace) => IsSome(main_stream)
        /\ i < Len(trace) => trace[i + 1].streaming
        /\ \A elem \in trace[i].elem :
              /\ elem.e \in {"chunk", "err"}
                 => /\ trace[i].res = "item"
                    /\ trace[i].item = Some(ForwardedAs(elem))
              /\ elem.e = "chunk" => elem.id = ReceivedCount(i)
        /\ trace[i].res = "item" => IsSome(trace[i].elem)

\* C10 as stated: ... and the stream ends exactly when the channel is closed.
C10_EndsExactlyWhenClosed ==
    /\ ForwardsInOrder
    /\ \A i \in StreamingPolls :
          trace[i].res = "end" <=> (trace[i].closed /\ trace[i].elem = None)

\* C10 as amended: ... and a poll in Streaming state reports end-of-stream
\* exactly when the channel hands over its end marker (a None element) or is
\* closed and empty; it is Pending exactly when the channel is open and empty.
C10_EndsOnMarkerOrClose ==
    /\ ForwardsInOrder
    /\ \A i \in StreamingPolls :
          /\ trace[i].res = "end" <=> \/ trace[i].closed /\ trace[i].elem = None
                                      \/ trace[i].elem = Some(EndElem)
          /\ trace[i].res = "pending" <=> (~trace[i].closed /\ trace[i].elem = None)

C10_Witness ==
    /\ Len(trace) = 3
    /\ StreamingPolls = {1, 2, 3}
    /\ trace[1].elem = Some(ErrElem(CubeError("User", <<"streamQuery()", "timed out">>)))
    /\ trace[2].elem = Some(ChunkElem(2))
    /\ IsBatch(trace[2])
    /\ trace[3].res = "end"
    /\ trace[3].closed

-----------------------------------------------------------------------------
(* Properties of specification SchedSpec *)

FetchInFlight(t) == threads[t] \in {"io", "ready"}
BlockedWorkers   == {w \in SchedWorkers : workers[w].st = "join"}
FreeWorkers      == {w \in SchedWorkers : workers[w].st \in {"idle", "park"}}

\* C3 as stated: while a downgrade fetch is in flight the scheduler is not
\* blocked: no worker is held by the fetch, a runnable task of another execution
\* has a worker that can take it, and a fetch waiting for the I/O driver has a
\* worker that can turn it (so the fetch completes, also with one worker).
C3_SchedulerNotBlocked ==
    \A t \in SchedTasks :
        FetchInFlight(t)
        => /\ BlockedWorkers = {}
           /\ (\E u \in SchedTasks : tasks[u].st = "queued")
              => (FreeWorkers # {} \/ \E w \in SchedWorkers : workers[w].st = "run")
           /\ threads[t] = "io"
              => (FreeWorkers # {} \/ \E w \in SchedWorkers : workers[w].st = "run")

\* Every worker of the runtime is blocked in join() while the fetch it waits
\* for needs the I/O driver: no action is enabled any more
FetchStuck ==
    /\ BlockedWorkers = SchedWorkers
    /\ \A w \in SchedWorkers : threads[workers[w].task] = "io"

-----------------------------------------------------------------------------
(* Failures of the downgrade fetch (specification Spec) *)

\* The polls that performed the downgrade fetch
FetchPolls == {i \in PollIndexes : trace[i].fetched}

\* C11 as stated: when load_data fails during the downgrade fetch (transport
\* error, no result entry, max-records guard), the poll yields an error item,
\* the polling task does not panic, and the router is left in OneShot state.
C11_FetchFailureIsErrorItem ==
    \A i \in FetchPolls :
        FetchOf(ReplyOf(trace[i])).kind = "err"
        => /\ trace[i].res = "item"
           /\ Unwrap(trace[i].item).kind = "err"
           /\ pc # "panic"
           /\ main_stream = None

\* The join() of load_to_stream_sync failed: the spawned thread panicked
JoinFailed(e) == e.fetched /\ IsSome(e.reply) /\ ReplyOf(e).kind = "panic"

CantLoadItem == ErrItem(ArrowExternal(ExecutionError(CantLoadMessage)))

\* C12: when the thread of the downgrade fetch terminates abnormally, that poll
\* yields the one error item "Can't load to stream", the channel is already
\* dropped (OneShot state), no batch is held, the polling task does not panic
\* and every later poll returns end-of-stream.
C12_JoinFailureIsOneErrorItem ==
    \A i \in PollIndexes :
        JoinFailed(trace[i])
        => /\ trace[i].res = "item"
           /\ trace[i].item = Some(CantLoadItem)
           /\ main_stream = None
           /\ one_shot_stream.data = None
           /\ pc = "stream"
           /\ \A j \in PollIndexes :
                 j > i => /\ trace[j].res = "end"
                          /\ ~trace[j].streaming
                          /\ ~trace[j].polled
                          /\ ~trace[j].fetched

C12_Witness ==
    /\ Len(trace) = 3
    /\ IsBatch(trace[1])
    /\ JoinFailed(trace[2])
    /\ trace[2].item = Some(CantLoadItem)
    /\ trace[3].res = "end"
    /\ chan.closed

-----------------------------------------------------------------------------
(* Failures inside execute() (specification Spec) *)

\* No router was created: nothing to poll
NoRouter ==
    /\ pc = "error"
    /\ main_stream = None
    /\ one_shot_stream = NoOneShot
    /\ trace = <<>>

\* execute() returned this error and created no router
ExecuteFailedWith(err) ==
    /\ Executed.ret = "err"
    /\ Executed.err = err
    /\ NoRouter

\* The rows transform_response is given in one-shot mode on this reply
OneShotRows(reply) ==
    IF no_members_query(plan.request)
    THEN NullRows(Unwrap(ClampLimit(PlanLimit, env.query_limit)))
    ELSE reply.results[Len(reply.results)]

Materialized(reply) == TransformResponse(OneShotRows(reply), plan.schema, plan.member_fields)

\* C13: a failure before a stream exists is returned by execute() as an error
\* carrying the cause, and no router is created: in one-shot mode a failing
\* transport.load, an empty result list, a tripped max-records guard or a
\* failing materialization; in streaming mode a failing load_stream.
C13_ExecuteReturnsEarlyFailures ==
    IsSome(execResult)
    => /\ Executed.ret = "err" => NoRouter
       /\ Executed.ret = "ok" => (one_shot_stream # NoOneShot /\ (trace = <<>> => pc = "stream"))
       /\ Executed.stream_mode
          => /\ Executed.ret \in {"ok", "err"}
             /\ Executed.ret = "err"
                => /\ Executed.err.variant = "DataFusionError::Execution"
                   /\ calls = << [op |-> "load_stream", request |-> plan.request,
                                  meta |-> MetaWithChangeUser(plan.meta, plan.options.change_user),
                                  sql |-> plan.wrapped_sql] >>
       /\ (~Executed.stream_mode /\ IsSome(Executed.reply))
          => LET reply == Unwrap(Executed.reply) IN
             /\ reply.kind = "error"
                => ExecuteFailedWith(DFArrowError(ComputeError(
                       <<reply.err.cause, ":">> \o reply.err.message)))
             /\ (reply.kind = "response" /\ ~HasResult(reply))
                => ExecuteFailedWith(DFArrowError(ComputeError(NoResultMessage)))
             /\ GuardTrips(reply) => ExecuteFailedWith(RowLimitError)
             /\ (HasResult(reply) /\ ~GuardTrips(reply) /\ ~Materialized(reply).ok)
                => ExecuteFailedWith(ExecutionError(<<Materialized(reply).msg>>))
       /\ (~Executed.stream_mode /\ Executed.reply = None /\ ~Materialized(NoReply).ok)
          => ExecuteFailedWith(ExecutionError(<<Materialized(NoReply).msg>>))

C13_Witness ==
    /\ IsSome(execResult)
    /\ ~Executed.stream_mode
    /\ IsSome(Executed.reply)
    /\ HasResult(ReplyOf(Executed))
    /\ ~GuardTrips(ReplyOf(Executed))
    /\ ~Materialized(ReplyOf(Executed)).ok
    /\ Executed.ret = "err"
    /\ NoRouter
    /\ Len(calls) = 1

-----------------------------------------------------------------------------
(* Properties of specification ExecSpec *)

\* C14 as stated: execute() with partition index 0 runs the scan; with any other
\* partition index it returns an error without calling the transport.
C14_OtherPartitionRejected ==
    IsSome(execResult)
    => /\ partition = 0 => (Executed.ret # "ok" \/ one_shot_stream # NoOneShot)
       /\ partition # 0
          => /\ Executed.ret = "err"
             /\ calls = <<>>
             /\ NoRouter

\* C15: every transport call of an execution (load_stream, load in one-shot
\* mode, load in a downgrade) carries metadata whose change_user is the plan's
\* options.change_user, also when that is unset and the plan's metadata held one.
C15_ChangeUserOnEveryCall ==
    \A k \in 1..Len(calls) :
        /\ calls[k].meta.change_user = plan.options.change_user
        /\ calls[k].meta = [plan.meta EXCEPT !.change_user = plan.options.change_user]

C15_Witness ==
    /\ plan.options.change_user = None
    /\ plan.meta.change_user = Some("stale")
    /\ Len(calls) = 2
    /\ calls[1].op = "load_stream"
    /\ calls[1].meta.change_user = None
    /\ calls[2].op = "load"
    /\ calls[2].meta.change_user = None

\* C16: no execute() call changes the plan; the clamped limit and the merged
\* change_user exist only in the execution's own one-shot stream and calls, so
\* every execution starts from the plan's original request.
C16_ExecuteKeepsPlan ==
    [][ /\ plan' = plan
        /\ execs' # execs
           => /\ \A k \in 1..Len(calls') :
                    calls'[k].request = (IF calls'[k].op = "load_stream" THEN plan.request
                                         ELSE ClampedRequest(plan.request, env.query_limit))
              /\ one_shot_stream' # NoOneShot
                 => one_shot_stream' =
                       [NewOneShotStream(plan, env.query_limit)
                           EXCEPT !.data = one_shot_stream'.data] ]_vars

C16_Witness ==
    /\ execs = 2
    /\ IsSome(execResult)
    /\ PlanLimit = None
    /\ plan.meta.change_user = Some("stale")
    /\ one_shot_stream # NoOneShot
    /\ one_shot_stream.request.limit = Some(env.query_limit)
    /\ one_shot_stream.meta.change_user # plan.meta.change_user
    /\ calls # <<>>

-----------------------------------------------------------------------------
(* Properties of specification MatSpec *)

MatDone     == IsSome(matOut)
MatResult   == Unwrap(matOut)
MatColumns  == 1..Len(matIn.schema)
MatRowCount == Len(matIn.response)
SupportedSchema == \A c \in MatColumns : matIn.schema[c] \in SupportedTypes

\* The cell is null or a value of the column's arrow type
CellFits(type, cell) ==
    \/ cell.null
    \/ CASE type = "Utf8"    -> "s" \in DOMAIN cell
         [] type = "Float64" -> "n" \in DOMAIN cell
         [] type = "Boolean" -> "b" \in DOMAIN cell
         [] type = "TimestampNanosecond"  -> "unit" \in DOMAIN cell /\ cell.unit = "ns"
         [] type = "TimestampMillisecond" -> "unit" \in DOMAIN cell /\ cell.unit = "ms"
         [] OTHER            -> "i" \in DOMAIN cell

\* Every column of the batch has one cell per row of the row source
FullColumns(batch) ==
    /\ Len(batch.columns) = Len(matIn.schema)
    /\ \A c \in MatColumns : Len(batch.columns[c]) = MatRowCount

\* C17: for a schema of supported types and member_fields of the same length, a
\* successful transform_response returns a batch with exactly one cell per row in
\* every column and exactly the schema's columns, in order and of its types.
C17_BatchMatchesSchema ==
    (/\ MatDone
     /\ SupportedSchema
     /\ Len(matIn.member_fields) = Len(matIn.schema)
     /\ MatResult.ok)
    => /\ MatResult.v.schema = matIn.schema
       /\ FullColumns(MatResult.v)
       /\ \A c \in MatColumns : \A r \in 1..MatRowCount :
             CellFits(matIn.schema[c], MatResult.v.columns[c][r])

C17_Witness ==
    /\ MatDone
    /\ MatResult.ok
    /\ matIn.schema = <<"Int64", "Utf8">>
    /\ MatRowCount = 2
    /\ MatResult.v.columns = << <<IntCell(5), NullCell>>, <<StrCell("5"), StrCell("x")>> >>

\* One cell of column c as build_column! computes it
CellResult(c, i) ==
    IF matIn.member_fields[c].mf = "Member"
    THEN MemberCell(matIn.schema[c], matIn.member_fields[c].name, matIn.response, i)
    ELSE LiteralCell(matIn.schema[c], matIn.member_fields[c].scalar)

FailingRows(c) == {i \in 1..MatRowCount : ~CellResult(c, i).ok}

ColumnFails(c) == matIn.schema[c] \notin SupportedTypes \/ FailingRows(c) # {}

Least(S) == CHOOSE x \in S : \A y \in S : x <= y

\* The fatal error of column c: the unsupported type, else that of its first failing row
ColumnError(c) ==
    IF matIn.schema[c] \notin SupportedTypes
    THEN "not supported in response transformation"
    ELSE CellResult(c, Least(FailingRows(c))).msg

FailingColumns == {c \in MatColumns : ColumnFails(c)}

\* C18: transform_response returns either a batch whose columns all have one
\* cell per row, or an error and no batch; the error is the first fatal error in
\* schema order (within a column, in row order), whatever later columns hold.
C18_AllOrNothing ==
    MatDone
    => /\ MatResult.ok => (FailingColumns = {} /\ FullColumns(MatResult.v))
       /\ ~MatResult.ok => DOMAIN MatResult = {"ok", "msg"}
       /\ FailingColumns # {}
          => /\ ~MatResult.ok
             /\ MatResult.msg = ColumnError(Least(FailingColumns))

C18_Witness ==
    /\ MatDone
    /\ matIn.schema = <<"Date32", "Binary">>
    /\ MatRowCount = 2
    /\ FailingRows(1) = {2}
    /\ FailingColumns = {1, 2}
    /\ MatResult = Err("Unable to map value")

\* The cell builder.append_option gives for a literal
LiteralValueCell(sv) ==
    IF sv.value = None THEN NullCell
    ELSE CASE sv.kind = "Utf8"    -> StrCell(Unwrap(sv.value))
           [] sv.kind = "Float64" -> NumCell(Unwrap(sv.value))
           [] sv.kind = "Boolean" -> BoolCell(Unwrap(sv.value))
           [] sv.kind = "TimestampNanosecond"  -> TsCell("ns", Unwrap(sv.value))
           [] sv.kind = "TimestampMillisecond" -> TsCell("ms", Unwrap(sv.value))
           [] OTHER               -> IntCell(Unwrap(sv.value))

MatchingLiteral(c) ==
    /\ matIn.member_fields[c].mf = "Literal"
    /\ matIn.schema[c] \in SupportedTypes
    /\ matIn.member_fields[c].scalar.kind = matIn.schema[c]

\* C19: a column bound to a literal of the column's kind never fails, whatever
\* the rows are (also rows that are not objects); in the batch it holds one cell
\* per row, each the literal's value, or null for the null literal.
C19_LiteralColumn ==
    MatDone
    => \A c \in MatColumns :
          MatchingLiteral(c)
          => /\ ~ColumnFails(c)
             /\ Len(matIn.schema) = 1 => MatResult.ok
             /\ MatResult.ok
                => MatResult.v.columns[c] =
                      [r \in 1..MatRowCount |-> LiteralValueCell(matIn.member_fields[c].scalar)]

C19_Witness ==
    /\ MatDone
    /\ matIn.schema = <<"Utf8">>
    /\ matIn.member_fields = <<Literal(Scalar("Utf8", Some("lit")))>>
    /\ matIn.response = <<JNull, JArray>>
    /\ MatResult.ok
    /\ MatResult.v.columns = << <<StrCell("lit"), StrCell("lit")>> >>

MismatchedLiteral(c) ==
    /\ matIn.member_fields[c].mf = "Literal"
    /\ matIn.schema[c] \in SupportedTypes
    /\ matIn.member_fields[c].scalar.kind # matIn.schema[c]

\* C20 as stated: a column bound to a literal whose kind is not the column's
\* type makes transform_response fail, for every row-source length N >= 0.
C20_LiteralMismatchFails ==
    MatDone => \A c \in MatColumns : MismatchedLiteral(c) => ~MatResult.ok

\* With at least one row the mismatched literal is fatal
LiteralMismatchFailsOnRows ==
    (MatDone /\ MatRowCount >= 1)
    => \A c \in MatColumns : MismatchedLiteral(c) => ~MatResult.ok

\* The row is an object whose field `name` is null or absent
NullOrMissing(row, name) ==
    /\ row.kind = "object"
    /\ name \in DOMAIN row.fields => row.fields[name] = JNull

MemberColumn(c) ==
    /\ matIn.member_fields[c].mf = "Member"
    /\ matIn.schema[c] \in SupportedTypes

NullValuedRows(c) ==
    {r \in 1..MatRowCount : NullOrMissing(matIn.response[r], matIn.member_fields[c].name)}

\* C21: for every supported target type and every row, a Member field whose row
\* value is null, or is missing from the row object, gives a null cell and never
\* an error: a failure is never that of such a row, a source of such rows only
\* materializes, and in the batch the cell of such a row is null.
C21_NullValueIsNullCell ==
    MatDone
    => \A c \in MatColumns :
          MemberColumn(c)
          => /\ FailingRows(c) \cap NullValuedRows(c) = {}
             /\ (Len(matIn.schema) = 1 /\ NullValuedRows(c) = 1..MatRowCount) => MatResult.ok
             /\ MatResult.ok
                => \A r \in NullValuedRows(c) : MatResult.v.columns[c][r] = NullCell

C21_Witness ==
    /\ MatDone
    /\ matIn.schema = <<"Date32">>
    /\ matIn.member_fields = <<Member("a")>>
    /\ matIn.response = <<JObject([b |-> JStr("5")]), JObject([a |-> JNull])>>
    /\ MatResult = Ok([schema |-> <<"Date32">>, columns |-> << <<NullCell, NullCell>> >>])


\* Column types whose string values are coerced cell by cell
CoercedTypes == {"Int32", "Int64", "Float64", "Boolean", "Date32"}

\* The value of row r's field for column c, null when the field is absent
FieldOf(c, r) ==
    LET row == matIn.response[r]
        name == matIn.member_fields[c].name
    IN IF name \in DOMAIN row.fields THEN row.fields[name] ELSE JNull

StringRows(c) ==
    {r \in 1..MatRowCount :
        matIn.response[r].kind = "object" /\ FieldOf(c, r).kind = "string"}

\* The cell a string is expected to give in a column of the type
ExpectedStringCell(type, s) ==
    CASE type \in {"Int32", "Int64"} ->
           (CASE s = "5" -> IntCell(5) [] s = "1" -> IntCell(1) [] s = "0" -> IntCell(0)
              [] OTHER -> NullCell)
      [] type = "Float64" ->
           (CASE s = "5" -> NumCell(500) [] s = "1" -> NumCell(100) [] s = "0" -> NumCell(0)
              [] OTHER -> NullCell)
      [] type = "Boolean" ->
           (CASE s \in {"true", "1"} -> BoolCell(TRUE) [] s \in {"false", "0"} -> BoolCell(FALSE)
              [] OTHER -> NullCell)
      [] type = "Date32" ->
           (CASE s \in {"2022-01-01", "2022-01-01T00:00:00.000"} -> IntCell(18993)
              [] OTHER -> NullCell)

\* C22: in an integer, float, boolean or date column a string value is never
\* fatal: a parseable string gives its value, any other string a null in that
\* cell only, a source of strings and nulls materializes, and the rows
\* null, 5, "5" of an integer column give [null, 5, 5].
C22_StringsCoercedPerCell ==
    MatDone
    => /\ \A c \in MatColumns :
            (MemberColumn(c) /\ matIn.schema[c] \in CoercedTypes)
            => /\ FailingRows(c) \cap StringRows(c) = {}
               /\ (Len(matIn.schema) = 1
                   /\ StringRows(c) \cup NullValuedRows(c) = 1..MatRowCount) => MatResult.ok
               /\ MatResult.ok
                  => \A r \in StringRows(c) :
                        MatResult.v.columns[c][r] =
                           ExpectedStringCell(matIn.schema[c], FieldOf(c, r).s)
       /\ (matIn.response = ScenarioRows /\ matIn.schema \in {<<"Int32">>, <<"Int64">>})
          => /\ MatResult.ok
             /\ MatResult.v.columns = << <<NullCell, IntCell(5), IntCell(5)>> >>

C22_Witness ==
    /\ MatDone
    /\ matIn.response = <<JObject([a |-> JStr("x")]), JObject([a |-> JStr("5")])>>
    /\ matIn.schema = <<"Int32">>
    /\ matIn.member_fields = <<Member("a")>>
    /\ MatResult.ok
    /\ MatResult.v.columns = << <<NullCell, IntCell(5)>> >>

\* The integer scenario of C22 is materialized
ScenarioMaterialized ==
    /\ MatDone
    /\ matIn.response = ScenarioRows
    /\ matIn.schema = <<"Int64">>
    /\ MatResult.ok


TimestampTypes == {"TimestampNanosecond", "TimestampMillisecond"}

\* The strings of the model that match one of the three timestamp formats
AcceptedTimestamps ==
    {"2022-01-01T00:00:00.000", "2022-01-01 00:00:00.000", "2022-01-01T00:00:00",
     "9999-12-31 00:00:00.000"}

\* The strings of the model that match one of the two date formats
AcceptedDates == {"2022-01-01", "2022-01-01T00:00:00.000"}

\* Rows of column c holding a string outside the accepted set
UnparseableRows(c, accepted) ==
    {r \in StringRows(c) : FieldOf(c, r).s \notin accepted}

OnlyStringsAndNulls(c) == StringRows(c) \cup NullValuedRows(c) = 1..MatRowCount

\* C23: a string matching none of the timestamp formats in a Timestamp (ns or
\* ms) column aborts the whole materialization with an error and no batch,
\* while a string matching none of the date formats in a Date32 column gives a
\* null in that cell only and the materialization succeeds.
C23_TimestampFatalDateNull ==
    MatDone
    => \A c \in MatColumns :
          MemberColumn(c)
          => /\ (matIn.schema[c] \in TimestampTypes
                 /\ UnparseableRows(c, AcceptedTimestamps) # {})
                => /\ ~MatResult.ok
                   /\ DOMAIN MatResult = {"ok", "msg"}
                   /\ (Len(matIn.schema) = 1 /\ OnlyStringsAndNulls(c))
                      => MatResult.msg = "Can't parse timestamp"
             /\ (matIn.schema[c] = "Date32"
                 /\ UnparseableRows(c, AcceptedDates) # {})
                => /\ FailingRows(c) \cap UnparseableRows(c, AcceptedDates) = {}
                   /\ (Len(matIn.schema) = 1 /\ OnlyStringsAndNulls(c)) => MatResult.ok
                   /\ MatResult.ok
                      => \A r \in UnparseableRows(c, AcceptedDates) :
                            MatResult.v.columns[c][r] = NullCell

C23_Witness ==
    /\ MatDone
    /\ matIn.response = <<JObject([a |-> JStr("2022-01-01T00:00:00.000")]),
                          JObject([a |-> JStr("x")])>>
    /\ matIn.schema = <<"TimestampMillisecond">>
    /\ matIn.member_fields = <<Member("a")>>
    /\ MatResult = Err("Can't parse timestamp")

\* The same rows in a Date32 column: the second cell is null
UnparseableDateIsNull ==
    /\ MatDone
    /\ matIn.response = <<JObject([a |-> JStr("2022-01-01T00:00:00.000")]),
                          JObject([a |-> JStr("x")])>>
    /\ matIn.schema = <<"Date32">>
    /\ matIn.member_fields = <<Member("a")>>
    /\ MatResult.ok
    /\ MatResult.v.columns = << <<IntCell(18993), NullCell>> >>


\* The primitive kinds with no coercion rule for the target type
UnmappedKinds(type) ==
    CASE type \in {"Int32", "Int64", "Float64"} -> {"bool"}
      [] type = "Boolean"                       -> {"number"}
      [] type \in TimestampTypes \cup {"Date32"} -> {"bool", "number"}
      [] OTHER                                  -> {}

UnmappedRows(c) ==
    {r \in 1..MatRowCount :
        /\ matIn.response[r].kind = "object"
        /\ FieldOf(c, r).kind \in UnmappedKinds(matIn.schema[c])}

\* C24: a non-null row value whose primitive kind has no coercion rule for the
\* column's type (a boolean for Int32/Int64/Float64/Timestamp/Date32, a number
\* for Boolean/Timestamp/Date32) makes transform_response fail; the row is a
\* failing row with 'Unable to map value', never a null cell, and that is the
\* reported error when no earlier row or column failed.
C24_UnmappedKindIsFatal ==
    MatDone
    => \A c \in MatColumns :
          (MemberColumn(c) /\ UnmappedRows(c) # {})
          => /\ ~MatResult.ok
             /\ \A r \in UnmappedRows(c) : CellResult(c, r) = Err("Unable to map value")
             /\ (Least(FailingColumns) = c /\ Least(FailingRows(c)) \in UnmappedRows(c))
                => MatResult = Err("Unable to map value")

C24_Witness ==
    /\ MatDone
    /\ matIn.response = <<JObject([a |-> JBool(TRUE)]), JObject([a |-> JNum(500)])>>
    /\ matIn.schema = <<"Boolean">>
    /\ matIn.member_fields = <<Member("a")>>
    /\ MatResult = Err("Unable to map value")


UnsupportedColumns == {c \in MatColumns : matIn.schema[c] \notin SupportedTypes}

NotSupportedError == Err("not supported in response transformation")

\* C25 as stated: if any column of the schema has an unsupported type,
\* transform_response fails with the 'not supported in response transformation'
\* error.
C25_UnsupportedTypeError ==
    (MatDone /\ UnsupportedColumns # {}) => MatResult = NotSupportedError

\* C25, amended: if any column of the schema has an unsupported type,
\* transform_response fails, whatever the member field is and even when the row
\* source is empty; the error is the 'not supported in response transformation'
\* one unless a column before the first unsupported one has already failed,
\* which no column does on an empty row source.
C25_UnsupportedTypeFails ==
    (MatDone /\ UnsupportedColumns # {})
    => /\ ~MatResult.ok
       /\ DOMAIN MatResult = {"ok", "msg"}
       /\ Least(FailingColumns) = Least(UnsupportedColumns) => MatResult = NotSupportedError
       /\ MatRowCount = 0 => MatResult = NotSupportedError

C25_Witness ==
    /\ MatDone
    /\ matIn.response = <<>>
    /\ matIn.schema = <<"Binary">>
    /\ matIn.member_fields = <<Literal(Scalar("Binary", None))>>
    /\ MatResult = NotSupportedError


-----------------------------------------------------------------------------
(* Malformed remote responses (specification Spec) *)

\* A load response without a result entry
NoResultEntry(reply) == reply.kind = "response" /\ Len(reply.results) = 0

\* What JsonValueObject::get rejects when column c reads the row: a row that is
\* not an object, or a field holding an array or an object
RejectedRow(row, c) ==
    /\ plan.member_fields[c].mf = "Member"
    /\ \/ row.kind # "object"
       \/ /\ plan.member_fields[c].name \in DOMAIN row.fields
          /\ row.fields[plan.member_fields[c].name].kind \in {"array", "object"}

\* A result that passes the max-records guard and holds a rejected row
RejectedRows(reply) ==
    /\ HasResult(reply)
    /\ ~GuardTrips(reply)
    /\ \E r \in 1..ReplyRows(reply) : \E c \in 1..Len(plan.schema) :
          RejectedRow(reply.results[Len(reply.results)][r], c)

MalformedResponse(reply) == NoResultEntry(reply) \/ RejectedRows(reply)

\* The descriptive errors of a malformed response
MalformedMessages ==
    {NoResultMessage, <<"row is not an object">>, <<"Expected primitive value">>}

\* execute() returned a descriptive error of a malformed response, and no stream
FailedAsMalformed ==
    /\ Executed.ret = "err"
    /\ Executed.err.msg \in MalformedMessages
    /\ NoRouter

\* The poll yielded a descriptive error of a malformed response; no batch is
\* held or delivered from then on
PollFailedAsMalformed(i) ==
    /\ trace[i].res = "item"
    /\ Unwrap(trace[i].item).kind = "err"
    /\ Unwrap(trace[i].item).err.msg \in MalformedMessages
    /\ one_shot_stream.data = None
    /\ pc # "panic"
    /\ \A j \in PollIndexes : j >= i => ~IsBatch(trace[j])

\* C26 as stated: a malformed remote response (no result entry, a row that is
\* not an object read for a Member column, a field holding an array or object)
\* fails the execution with a descriptive error and delivers no batch, in the
\* fetch of execute() and in the fetch of a downgrade alike.
C26_MalformedResponseFails ==
    /\ (IsSome(execResult) /\ IsSome(Executed.reply) /\ MalformedResponse(ReplyOf(Executed)))
       => FailedAsMalformed
    /\ \A i \in FetchPolls :
          (IsSome(trace[i].reply) /\ MalformedResponse(ReplyOf(trace[i])))
          => PollFailedAsMalformed(i)

\* What holds of C26: every malformed response fails execute() with its
\* descriptive error, and rejected rows fail the downgrade fetch with theirs
MalformedFailsOutsideDowngradeUnwrap ==
    /\ (IsSome(execResult) /\ IsSome(Executed.reply) /\ MalformedResponse(ReplyOf(Executed)))
       => FailedAsMalformed
    /\ \A i \in FetchPolls :
          (IsSome(trace[i].reply) /\ RejectedRows(ReplyOf(trace[i])))
          => PollFailedAsMalformed(i)

\* A downgrade fetch whose rows are rejected yields the error item
RejectedRowsInDowngrade ==
    \E i \in FetchPolls :
        /\ IsSome(trace[i].reply)
        /\ RejectedRows(ReplyOf(trace[i]))
        /\ PollFailedAsMalformed(i)

\* A downgrade fetch that gets no result entry panics
NoResultInDowngradePanics ==
    \E i \in FetchPolls :
        /\ IsSome(trace[i].reply)
        /\ NoResultEntry(ReplyOf(trace[i]))
        /\ trace[i].res = "panic"


-----------------------------------------------------------------------------
(* Properties of specification LowerSpec *)

LowerDone   == IsSome(lowered)
LowerResult == Unwrap(lowered)
LowerNode   == lowering.node

IsWrapper == LowerNode.kind = "CubeScanWrapperNode"

\* The wrapper was not resolved by the push-down rewriter, or wraps no cube scan
Unresolved ==
    \/ LowerNode.member_fields = None
    \/ LowerNode.wrapped_sql = None
    \/ Len(LowerNode.wrapped_plan) = 0

\* C27: lowering a wrapper node whose member_fields are unset, whose wrapped_sql
\* is unset or whose wrapped plan holds no cube scan leaf fails with an internal
\* error and returns no physical plan; a physical plan is only ever produced for
\* a resolved wrapper.
C27_UnresolvedWrapperFails ==
    (LowerDone /\ IsWrapper)
    => /\ Unresolved
          => /\ LowerResult.kind = "err"
             /\ DOMAIN LowerResult = {"kind", "err"}
             /\ LowerResult.err.variant = "DataFusionError::Internal"
             /\ LowerResult.err.msg \in
                   {NoCubeScansMessage, NoMemberFieldsMessage, NoWrappedSqlMessage}
       /\ LowerResult.kind = "plan" => ~Unresolved
       /\ ~Unresolved => LowerResult.kind = "plan"

C27_Witness ==
    /\ LowerDone
    /\ IsWrapper
    /\ LowerNode.member_fields = None
    /\ LowerNode.wrapped_sql = Some("SELECT 1")
    /\ LowerNode.wrapped_plan = <<LeafA>>
    /\ LowerResult = PlanError(InternalError(NoMemberFieldsMessage))

\* The wrapped SQL alone is missing
WrappedSqlUnsetFails ==
    /\ LowerDone
    /\ IsWrapper
    /\ LowerNode.member_fields # None
    /\ LowerNode.wrapped_sql = None
    /\ LowerNode.wrapped_plan # <<>>
    /\ LowerResult = PlanError(InternalError(NoWrappedSqlMessage))

OtherNodeNotApplicable ==
    /\ LowerDone
    /\ LowerNode.kind = "Projection"
    /\ LowerResult = NotApplicable


-----------------------------------------------------------------------------
(* Properties of specification TemplateSpec *)

\* from_template returned a node
TemplateDone ==
    /\ IsSome(rebuilt) /\ Unwrap(rebuilt).kind = "node"
    /\ template.node.kind = "WrappedSelectNode"
Original     == template.node
Result       == Unwrap(rebuilt).node

JoinKinds(node) == [i \in 1..Len(node.joins) |-> node.joins[i].join_type]

\* C29: a WrappedSelectNode rebuilt by from_template has limit, offset and
\* alias unset, whatever the original carried, while select_type, schema, the
\* join kinds and the ungrouped flag are those of the original.
C29_TemplateResetsLimitOffsetAlias ==
    TemplateDone
    => /\ Result.limit = None
       /\ Result.offset = None
       /\ Result.alias = None
       /\ Result.select_type = Original.select_type
       /\ Result.schema = Original.schema
       /\ JoinKinds(Result) = JoinKinds(Original)
       /\ Result.ungrouped = Original.ungrouped

C29_Witness ==
    /\ TemplateDone
    /\ template.how = "rewritten"
    /\ Original.limit = Some(10)
    /\ Original.offset = Some(5)
    /\ Original.alias = Some("q")
    /\ Original.ungrouped
    /\ JoinKinds(Original) = <<"Left", "Inner">>
    /\ Result.limit = None
    /\ Result.alias = None
    /\ JoinKinds(Result) = <<"Left", "Inner">>

\* The expression lists of a node in the order expressions() exposes them
ExprListsOf(node) ==
    << node.projection_expr, node.group_expr, node.aggr_expr, node.window_expr,
       [i \in 1..Len(node.joins) |-> node.joins[i].expr],
       node.filter_expr, node.having_expr, node.order_expr >>

RECURSIVE Flatten(_)
Flatten(lists) == IF lists = <<>> THEN <<>> ELSE Head(lists) \o Flatten(Tail(lists))

ChildrenOf(node) == <<node.from>> \o [i \in 1..Len(node.joins) |-> node.joins[i].plan]

\* C30: expressions() lists the projection, group, aggregate, window, join,
\* filter, having and order expressions in that order and inputs() the from
\* child then the joined children; from_template puts the i-th given expression
\* and child back into the slot the i-th one came from, so rebuilding from the
\* node's own expressions and inputs gives back every expression list, child
\* and join (child, expression, kind) triple.
C30_TemplateRoundTrip ==
    TemplateDone
    => /\ \A k \in 1..8 : Len(ExprListsOf(Result)[k]) = Len(ExprListsOf(Original)[k])
       /\ Flatten(ExprListsOf(Result)) = template.exprs
       /\ ChildrenOf(Result) = template.inputs
       /\ template.how = "same"
          => /\ template.exprs = Flatten(ExprListsOf(Original))
             /\ template.inputs = ChildrenOf(Original)
             /\ ExprListsOf(Result) = ExprListsOf(Original)
             /\ Result.from = Original.from
             /\ Result.joins = Original.joins
             /\ Result = [Original EXCEPT !.limit = None, !.offset = None, !.alias = None]

C30_Witness ==
    /\ TemplateDone
    /\ template.how = "same"
    /\ Len(Original.joins) = 2
    /\ Len(Original.filter_expr) = 2
    /\ Len(Original.having_expr) = 1
    /\ Original.limit = None
    /\ Result = Original

\* Rewritten expressions and children land in the slots of the originals
RewrittenInPlace ==
    /\ TemplateDone
    /\ template.how = "rewritten"
    /\ Len(Original.joins) = 1
    /\ Len(Original.group_expr) = 0
    /\ Result.joins = << Join(Rewritten(ChildPlan(<<"join", 1>>)),
                              Rewritten(Expr("join", 1)), "Left") >>
    /\ Result.filter_expr = << Rewritten(Expr("filter", 1)) >>

\* A call with another number of expressions or inputs trips an assert_eq!
WrongSizePanics ==
    /\ IsSome(rebuilt)
    /\ template.how \in {"extra_expr", "no_inputs"}
    /\ Unwrap(rebuilt) = TemplatePanic



\* from_template was called, whatever it did
TemplateCalled == IsSome(rebuilt)

\* The arity a node kind asks for: no expression and no child on a
\* CubeScanNode; expressions().len() expressions and 1 + joins children on a
\* WrappedSelectNode
ArityMatches ==
    IF template.node.kind = "CubeScanNode"
    THEN Len(template.exprs) = 0 /\ Len(template.inputs) = 0
    ELSE /\ Len(template.exprs) = Len(expressions(template.node))
         /\ Len(template.inputs) = 1 + Len(template.node.joins)

\* C31: from_template panics unless the arity matches exactly, for both node
\* kinds, and a panicking call produces no node; a matching call produces one
C31_TemplateArityExact ==
    TemplateCalled =>
        /\ ArityMatches <=> Unwrap(rebuilt).kind = "node"
        /\ ~ArityMatches <=> Unwrap(rebuilt) = TemplatePanic
        /\ Unwrap(rebuilt) = TemplatePanic => "node" \notin DOMAIN Unwrap(rebuilt)

\* A scan handed one expression panics
C31_Witness ==
    /\ TemplateCalled
    /\ template.node.kind = "CubeScanNode"
    /\ Len(template.exprs) = 1
    /\ Unwrap(rebuilt) = TemplatePanic

\* A wrapped select handed one child too many panics
TooManyChildrenPanics ==
    /\ TemplateCalled
    /\ template.node.kind = "WrappedSelectNode"
    /\ Len(template.inputs) = 2 + Len(template.node.joins)
    /\ Len(template.exprs) = Len(expressions(template.node))
    /\ Unwrap(rebuilt) = TemplatePanic

\* A wrapped select handed one expression too few panics
MissingExprPanics ==
    /\ TemplateCalled
    /\ template.node.kind = "WrappedSelectNode"
    /\ template.how = "missing_expr"
    /\ Unwrap(rebuilt) = TemplatePanic

\* A scan handed nothing is cloned
ScanCloned ==
    /\ TemplateCalled
    /\ template.node.kind = "CubeScanNode"
    /\ Unwrap(rebuilt) = Rebuilt(template.node)


-----------------------------------------------------------------------------
(* The downgrade at any position of the channel (specification Spec) *)

\* The polls in Streaming state that took a not-implemented error off the channel
NotImplementedPolls ==
    {i \in PollIndexes : /\ trace[i].streaming
                         /\ IsSome(trace[i].elem)
                         /\ IsNotImplemented(Unwrap(trace[i].elem))}

\* The batches the consumer got in polls 1..n
BatchesUpTo(n) == {j \in 1..n : IsBatch(trace[j])}

\* The chunks the channel handed over in polls 1..n
ChunksUpTo(n) ==
    {j \in 1..n : IsSome(trace[j].elem) /\ Unwrap(trace[j].elem).e = "chunk"}

\* C32: a not-implemented error triggers the downgrade at whatever position of
\* the channel it arrives. The k batches delivered before it are the k chunks
\* the channel produced before it, each forwarded as it came; where the one-shot
\* fetch gives a batch, the poll that received the error yields that whole batch
\* and every later poll returns end-of-stream; the not-implemented error is
\* never an item of the stream.
C32_DowngradeAtAnyPosition ==
    \A i \in NotImplementedPolls :
        /\ trace[i].fetched
        /\ BatchesUpTo(i - 1) = ChunksUpTo(i - 1)
        /\ \A j \in BatchesUpTo(i - 1) :
              /\ trace[j].streaming
              /\ trace[j].item = Some(ForwardedAs(Unwrap(trace[j].elem)))
        /\ DirectOneShot(ReplyOf(trace[i])).kind = "ok"
           => /\ trace[i].item = Some(BatchItem(DirectOneShot(ReplyOf(trace[i])).batch))
              /\ BatchesUpTo(Len(trace)) = BatchesUpTo(i - 1) \cup {i}
              /\ \A j \in PollIndexes : j > i => trace[j].res = "end"
        /\ \A j \in PollIndexes :
              trace[j].item # Some(ForwardedAs(Unwrap(trace[i].elem)))

\* One batch was delivered, then the error arrived: the one-shot batch of two
\* rows follows, then end-of-stream
C32_Witness ==
    /\ Len(trace) = 3
    /\ NotImplementedPolls = {2}
    /\ BatchesUpTo(1) = {1}
    /\ IsBatch(trace[2])
    /\ NumRows(Unwrap(trace[2].item).batch) = 2
    /\ trace[3].res = "end"

\* The error arrived as the first element of the channel
DowngradeAtFirstElement ==
    /\ Len(trace) = 2
    /\ NotImplementedPolls = {1}
    /\ IsBatch(trace[1])
    /\ trace[2].res = "end"

\* The error arrived after another error had been forwarded
DowngradeAfterForwardedError ==
    /\ Len(trace) = 2
    /\ NotImplementedPolls = {2}
    /\ trace[1].res = "item"
    /\ ~IsBatch(trace[1])
    /\ IsBatch(trace[2])


-----------------------------------------------------------------------------
(* The number of transport calls of one execution (specification Spec) *)

\* The positions of `calls` that hold a call of the operation op
CallsOf(op) == {c \in 1..Len(calls) : calls[c].op = op}

\* The polls that called transport.load
LoadingPolls == {i \in FetchPolls : IsSome(trace[i].reply)}

\* C33: one execution calls load_stream at most once and load at most once; a
\* one-shot execution never calls load_stream; a streaming execution calls load
\* only in the poll that takes a not-implemented error off the channel, once
\* per such poll at most, and never when no such error arrived.
C33_TransportCallsBounded ==
    /\ Cardinality(CallsOf("load_stream")) <= 1
    /\ Cardinality(CallsOf("load")) <= 1
    /\ CallsOf("load_stream") \cup CallsOf("load") = 1..Len(calls)
    /\ IsSome(execResult)
       => /\ ~Executed.stream_mode => CallsOf("load_stream") = {}
          /\ Executed.stream_mode
             => /\ CallsOf("load_stream") = {1}
                /\ Cardinality(CallsOf("load")) = Cardinality(LoadingPolls)
                /\ LoadingPolls \subseteq NotImplementedPolls
                /\ NotImplementedPolls = {} => CallsOf("load") = {}

\* A streaming execution that called load_stream, forwarded a batch, and then
\* called load once for the downgrade
C33_Witness ==
    /\ IsSome(execResult)
    /\ Executed.stream_mode
    /\ Len(calls) = 2
    /\ calls[1].op = "load_stream"
    /\ calls[2].op = "load"
    /\ Len(trace) = 3
    /\ LoadingPolls = {2}

\* A streaming execution whose channel carried another error and then closed
\* without ever calling load
StreamedWithoutLoad ==
    /\ IsSome(execResult)
    /\ Executed.stream_mode
    /\ Len(trace) = 2
    /\ trace[1].res = "item" /\ ~IsBatch(trace[1])
    /\ trace[2].res = "end"
    /\ CallsOf("load") = {}

\* A one-shot execution polled to its end with its one load call
OneShotCalledLoadOnce ==
    /\ IsSome(execResult)
    /\ ~Executed.stream_mode
    /\ Len(trace) = 3
    /\ Len(calls) = 1
    /\ calls[1].op = "load"


-----------------------------------------------------------------------------
(* The max_records cap and the degenerate query (specification Spec) *)

\* The limit load_data sees: execute() has clamped it
ClampedLimit == Unwrap(ClampLimit(PlanLimit, env.query_limit))

\* The degenerate request is at or above the cap
AtOrAboveCap == \E m \in plan.options.max_records : ClampedLimit >= m

\* C34: load_data never answers a no-members request with the max-records
\* error: for the plan's options and any limit it returns `limit` null rows
\* (one row for an unset limit), also when limit >= max_records. An execution
\* of such a request calls no transport.load, never fails with the max-records
\* error, and where the rows materialize (no Member column) its batch has
\* `limit` rows.
C34_NoCapOnDegenerate ==
    no_members_query(plan.request)
    => /\ \A l \in Limits :
             load_data([plan.request EXCEPT !.limit = l], plan.options, NoReply)
               = [kind |-> "ok", data |-> [r \in 1..UnwrapOr(l, 1) |-> JNull]]
       /\ FetchOf(NoReply).kind = "ok"
       /\ Len(FetchOf(NoReply).data) = ClampedLimit
       /\ CallsOf("load") = {}
       /\ IsSome(execResult) /\ Executed.ret = "err" => Executed.err # RowLimitError
       /\ \A i \in FetchPolls :
             /\ trace[i].res = "item"
             /\ trace[i].item # Some(ErrItem(ArrowExternal(RowLimitError)))
       /\ (IsSome(execResult) /\ ~Executed.stream_mode /\ Materialized(NoReply).ok)
          => /\ Executed.ret = "ok"
             /\ trace = <<>> => /\ IsSome(one_shot_stream.data)
                                /\ NumRows(Unwrap(one_shot_stream.data)) = ClampedLimit

\* A degenerate one-shot execution with limit 3 and max_records 2 holds a batch
\* of three rows
C34_Witness ==
    /\ no_members_query(plan.request)
    /\ plan.options.max_records = Some(2)
    /\ ClampedLimit = 3
    /\ IsSome(execResult)
    /\ Executed.ret = "ok"
    /\ trace = <<>>
    /\ NumRows(Unwrap(one_shot_stream.data)) = 3

\* A degenerate request at the cap fetched by a downgrade
DegenerateDowngradeAtCap ==
    /\ no_members_query(plan.request)
    /\ AtOrAboveCap
    /\ FetchPolls # {}

\* The same cap trips on the transport path
CapTripsOnTransportPath ==
    /\ ~no_members_query(plan.request)
    /\ IsSome(execResult)
    /\ Executed.ret = "err"
    /\ Executed.err = RowLimitError


-----------------------------------------------------------------------------
(* Properties of specification ConnSpec *)

\* The statement map of the connection, and the last handler call
Statements  == conn.state.statements
LastCall    == conn.last
Called(op)  == LastCall.op = op

\* The last call was an on_prepare that found the map full, or a text that
\* does not parse
RefusedPrepare ==
    /\ Called("on_prepare")
    /\ \/ MapLen(LastCall.before.statements) >= conn.max
       \/ ~parse_sql_to_statement(LastCall.arg).ok

\* C35: the statement map of a connection never holds more than
\* connection_max_prepared_statements statements; an on_prepare that finds the
\* map at the maximum, or whose text does not parse, leaves the map and the id
\* counter as they were and replies with an error; it makes no reply only when
\* the search for the parameters of a parsed text failed first, and then it
\* returns that failure and the connection ends.
C35_StatementsBounded ==
    /\ MapLen(Statements) <= conn.max
    /\ RefusedPrepare
       => /\ conn.state = LastCall.before
          /\ \A r \in LastCall.reply : r.w = "error"
          /\ LastCall.reply = None
             => /\ parse_sql_to_statement(LastCall.arg).ok
                /\ LastCall.ret = "io_error"

\* The map is full, and the on_prepare that just arrived was refused with the
\* allocation error
C35_Witness ==
    /\ conn.max = 2
    /\ MapLen(Statements) = 2
    /\ Called("on_prepare")
    /\ MapLen(LastCall.before.statements) = 2
    /\ LastCall.reply = Some(ReplyError("ER_INTERNAL_ERROR", MaxAllocationMessage(2, 2)))
    /\ conn.state.id = 3

\* A text that does not parse is refused with the parse error
ParseErrorRefused ==
    /\ Called("on_prepare")
    /\ LastCall.arg = "SELEC"
    /\ MapLen(Statements) = 1
    /\ LastCall.reply = Some(ReplyError("ER_PARSE_ERROR", <<"parse">>))
    /\ LastCall.ret = "ok"

\* A place freed by on_close is taken by the next on_prepare
PreparedAfterClose ==
    /\ conn.max = 1
    /\ Called("on_prepare")
    /\ LastCall.reply = Some(ReplyStatement(3))
    /\ DOMAIN Statements = {3}


\* The ids on_prepare has handed out, in the order of the calls
Issued == conn.issued

\* C36: the ids handed out by the successful on_prepare calls of a connection
\* start at 2 and are strictly increasing, so no id is handed out twice, also
\* when a statement was closed in between; a successful on_prepare hands out
\* the id counter it has just incremented, and every id in the statement map
\* is an id handed out before, at most the id counter.
C36_IdsIncreaseNeverReused ==
    /\ Issued # <<>> => Issued[1] = 2
    /\ \A i, j \in DOMAIN Issued : i < j => Issued[i] < Issued[j]
    /\ \A i \in DOMAIN Issued : Issued[i] <= conn.state.id
    /\ \A id \in DOMAIN Statements : 2 <= id /\ id <= conn.state.id
    /\ (Called("on_prepare") /\ \E r \in LastCall.reply : r.w = "reply")
       => /\ LastCall.reply = Some(ReplyStatement(LastCall.before.id + 1))
          /\ conn.state.id = LastCall.before.id + 1
          /\ conn.state.id \notin DOMAIN LastCall.before.statements
          /\ \A i \in DOMAIN Issued : i < Len(Issued) => Issued[i] < conn.state.id

\* Statement 2 was closed, and the on_prepare after it handed out 4, not 2
C36_Witness ==
    /\ Issued = <<2, 3, 4>>
    /\ DOMAIN Statements = {3, 4}
    /\ Called("on_prepare")
    /\ DOMAIN LastCall.before.statements = {3}

\* The only statement was closed and the map is empty below the counter
ClosedBelowCounter ==
    /\ Issued = <<2>>
    /\ Called("on_close")
    /\ Statements = <<>>
    /\ conn.state.id = 2

-----------------------------------------------------------------------------
(* on_execute and on_close (specification ConnSpec) *)

UnknownStatementReply == ReplyError("ER_INTERNAL_ERROR", UnknownStatementMessage)

\* C37: on_execute with an id that is not in the statement map (never prepared,
\* or closed) makes the one reply "Unknown statement" and hands no query to
\* handle_query; no on_execute changes the statement map or the id counter,
\* the query it executes is a bound clone and the stored statements stay
\* unbound; on_close removes the given id and nothing else, and with an id
\* that is not in the map it changes nothing.
C37_ExecuteAndClose ==
    /\ \A id \in DOMAIN Statements : Statements[id].bound = <<>>
    /\ Called("on_execute")
       => /\ conn.state = LastCall.before
          /\ LastCall.arg \notin DOMAIN LastCall.before.statements
             => /\ LastCall.reply = Some(UnknownStatementReply)
                /\ LastCall.query = None
          /\ \A q \in LastCall.query :
                /\ LastCall.arg \in DOMAIN LastCall.before.statements
                /\ q.sql = LastCall.before.statements[LastCall.arg].sql
    /\ Called("on_close")
       => /\ conn.state.id = LastCall.before.id
          /\ DOMAIN Statements = DOMAIN LastCall.before.statements \ {LastCall.arg}
          /\ \A id \in DOMAIN Statements : Statements[id] = LastCall.before.statements[id]
          /\ LastCall.arg \notin DOMAIN LastCall.before.statements
             => conn.state = LastCall.before

\* Statement 2 was prepared and closed; executing it is answered with
\* "Unknown statement" while statement 3 is still stored
C37_Witness ==
    /\ Issued = <<2, 3>>
    /\ DOMAIN Statements = {3}
    /\ Called("on_execute")
    /\ LastCall.arg = 2
    /\ LastCall.reply = Some(UnknownStatementReply)
    /\ LastCall.query = None

\* An id that was never handed out is unknown too
NeverPreparedIsUnknown ==
    /\ Called("on_execute")
    /\ LastCall.arg > conn.state.id
    /\ LastCall.reply = Some(UnknownStatementReply)

\* A stored statement was executed with a bound parameter and is still stored
\* unbound
ExecutedBoundClone ==
    /\ Called("on_execute")
    /\ \E q \in LastCall.query : /\ Len(q.bound) = 1
                                  /\ q.bound[1].t = "Int64"
                                  /\ q.bound[1].v = 7
    /\ Statements[LastCall.arg].bound = <<>>

\* Closing an id that is not stored
ClosedUnknownId ==
    /\ Called("on_close")
    /\ LastCall.arg \notin DOMAIN LastCall.before.statements
    /\ MapLen(Statements) = 1

\* on_execute panicked on a parameter type it does not support
UnsupportedParamPanics ==
    /\ Called("on_execute")
    /\ LastCall.ret = "panic"
    /\ ~conn.alive


-----------------------------------------------------------------------------
(* Properties of specifications ServerSpec and ServerLiveSpec *)

\* The loop is running: at select!, or setting up an accepted connection
Listening  == server.pc \in {"select", "setup"}
ReturnedOk == server.pc = "returned_ok"
StopCalled == server.stop.value

\* What holds in every state of the loop: it returns Ok only on the stop
\* signal; once it has observed the signal it creates no session; it returns
\* Err only when bind failed, before any accept; accept errors leave it running
LoopReturnsOnlyOnStop ==
    /\ ReturnedOk => /\ StopCalled
                     /\ server.observed = Some(server.next_id)
                     /\ server.socket = None
    /\ server.pc = "returned_err" => /\ server.next_id = 0
                                     /\ server.accept_errors = 0
                                     /\ server.observed = None
    /\ (server.accept_errors > 0 /\ ~StopCalled) => Listening

\* C38: once stop_processing has been called, a processing_loop that listens
\* returns Ok, wherever the loop was when the signal came (not yet at select!,
\* waiting in select!, or setting up a connection); after it has observed the
\* signal it creates no session; an accept error never ends the loop.
C38_StopEventuallyReturnsOk ==
    /\ []LoopReturnsOnlyOnStop
    /\ (StopCalled /\ Listening) ~> ReturnedOk

\* The signal came while a connection was being set up: the session was
\* created, and the loop returned Ok at its next select!, after an accept error
C38_Witness ==
    /\ ReturnedOk
    /\ server.stopped_at = "setup"
    /\ server.accept_errors = 1
    /\ server.next_id = 1
    /\ server.observed = Some(1)

\* The signal came before processing_loop had bound its listener
StoppedBeforeListening ==
    /\ ReturnedOk
    /\ server.stopped_at = "idle"
    /\ server.next_id = 0

\* The signal came while the loop waited in select!
StoppedWhileAccepting ==
    /\ ReturnedOk
    /\ server.stopped_at = "select"
    /\ server.next_id = MaxConns

\* bind failed: processing_loop returned the error
BindFailed ==
    /\ server.pc = "returned_err"
    /\ StopCalled

-----------------------------------------------------------------------------
(* The sessions of the accepted connections (specification ServerLiveSpec) *)

ConnTask(id)     == server.conns[id]
HandlerEnded(id) == ConnTask(id).handler \in {"ok", "err", "panic"}
InManager(id)    == id \in DOMAIN server.sessions
DroppedOnce(id)  == ~InManager(id) /\ ConnTask(id).drops = 1

\* What holds in every state for every connection: its session is in the
\* manager from its creation on, it is removed by a drop_session call made
\* after the handler has ended, and no second call is made
SessionHeldWhileRunning ==
    \A id \in 1..MaxConns :
        /\ ConnTask(id).handler = "none" <=> id > server.next_id
        /\ ConnTask(id).drops <= 1
        /\ ConnTask(id).handler = "running" => InManager(id) /\ ConnTask(id).drops = 0
        /\ ConnTask(id).handler = "none" => ~InManager(id) /\ ConnTask(id).drops = 0
        /\ HandlerEnded(id) => (InManager(id) <=> ConnTask(id).drops = 0)

\* C39: the session of every accepted connection stays in the session manager
\* while its handler task runs, and once the handler task has ended (run_on
\* returned Ok, returned Err, or the task panicked) it is removed by one
\* drop_session call, and by no second one.
C39_SessionDroppedOnceAfterHandler ==
    /\ []SessionHeldWhileRunning
    /\ \A id \in 1..MaxConns : HandlerEnded(id) ~> DroppedOnce(id)

\* The first handler panicked and its session was dropped; the second is
\* still running and its session is still held
C39_Witness ==
    /\ ConnTask(1).handler = "panic"
    /\ DroppedOnce(1)
    /\ ConnTask(2).handler = "running"
    /\ DOMAIN server.sessions = {2}

\* A handler that returned an error, after the loop has returned
DroppedAfterLoopReturned ==
    /\ ReturnedOk
    /\ ConnTask(1).handler = "err"
    /\ DroppedOnce(1)

\* The handler has ended and the dropper task has not run yet
EndedNotYetDropped ==
    /\ ConnTask(1).handler = "ok"
    /\ InManager(1)
    /\ ConnTask(1).drops = 0

=============================================================================
